---- MODULE Spec2Model ----
(***************************************************************************)
(* Task-tracking application: entity model (Task), the two repositories    *)
(* with their per-id TTL caches (TaskRepository, UserRepository), the      *)
(* service layer and the controller's permission-gated mutation paths.     *)
(*                                                                         *)
(* Conventions of the model                                                *)
(*  - JavaScript strings that the code trims or lower-cases (title,        *)
(*    category, tags) are sequences of one-character strings, so trim()    *)
(*    and toLowerCase() are computed, not assumed.                         *)
(*  - null / undefined / absent option is Null (the empty tuple, which is  *)
(*    also the empty string, falsy like in the code); absent ids,          *)
(*    priorities and statuses are "" (falsy as well).                      *)
(*  - a Date is <<"date", t>>, the ISO string toISOString() produces is    *)
(*    <<"iso", t>>, a parseable date string of a form is <<"str", t>>, an  *)
(*    unparseable one <<"garbage">>, and an Invalid Date <<"invalid">>.    *)
(*  - a number of hours is <<n>>.                                          *)
(*  - the clock counts minutes; several calls can read the same clock      *)
(*    value (the Tick action is what advances it).                         *)
(*  - description, notes and attachments of a task are not modelled.       *)
(***************************************************************************)
EXTENDS Integers, Sequences, FiniteSets, TLC

VARIABLES
    tasks,      \* persisted collection under key 'tasks': sequence of plain rows
    users,      \* persisted collection under key 'users': sequence of plain rows
    taskCache,  \* TaskRepository._cache : id -> NoEntry or [data, timestamp]
    userCache,  \* UserRepository._cache : id -> NoEntry or [data, timestamp]
    now,        \* Date.now(), in minutes
    currentUser,\* TaskController.currentUser (NoUser before initialize)
    currentFilter, \* TaskController.currentFilter
    displayed,  \* TaskView.currentTasks: the list last handed to displayTasks
    svcListeners, \* TaskService.listeners, in insertion order
    ctlListeners, \* TaskController.listeners (BaseController), in insertion order
    asked,      \* the most recent filterTasks request of a caller: kind, value, outcome
    last,       \* the last completed call: what was asked and what came back
    prev,       \* the last successful create/update/delete made on the task repository
    flight,     \* the handlers and refreshes started and not awaited, with where each stands
    steps       \* number of calls made so far

vars == <<tasks, users, taskCache, userCache, now, currentUser, currentFilter, displayed,
          svcListeners, ctlListeners, asked, last, prev, flight, steps>>

\* the state of the controller's filter, of the view and of the listener sets
front == <<currentFilter, displayed, svcListeners, ctlListeners, asked, flight>>

----------------------------------------------------------------------------
(* Bounds of the model *)

MaxSteps == 3
MaxTime == 12
MaxTasks == 2
MaxUsers == 2

(* Program constants, in minutes *)
TaskCacheExpiry == 5
UserCacheExpiry == 10

Null == <<>>
Date(t) == <<"date", t>>
Iso(t) == <<"iso", t>>
InvalidDate == <<"invalid">>
NoEntry == [data |-> Null, timestamp |-> -1]
NoUser == [id |-> "", username |-> Null, email |-> Null, role |-> "", isAdmin |-> FALSE]

TaskIds == {"t1", "t2"}
GenTaskId == "g1"
AllTaskIds == TaskIds \cup {GenTaskId}
UserIds == {"u1", "u2"}

----------------------------------------------------------------------------
(* String.prototype.toLowerCase and String.prototype.trim on character
   sequences *)

ToLowerChar(c) ==
    CASE c = "A" -> "a"
      [] c = "B" -> "b"
      [] c = "W" -> "w"
      [] OTHER -> c

toLowerCase(s) == [i \in 1..Len(s) |-> ToLowerChar(s[i])]

RECURSIVE trimStart(_)
trimStart(s) ==
    IF s # <<>> /\ Head(s) = " " THEN trimStart(Tail(s)) ELSE s

RECURSIVE trimEnd(_)
trimEnd(s) ==
    IF s # <<>> /\ s[Len(s)] = " " THEN trimEnd(SubSeq(s, 1, Len(s) - 1)) ELSE s

trim(s) == trimEnd(trimStart(s))

Includes(seq, x) == \E i \in 1..Len(seq) : seq[i] = x

----------------------------------------------------------------------------
(* Task entity (class Task) *)

Ok(t) == [ok |-> TRUE, t |-> t, err |-> ""]
Err(t, msg) == [ok |-> FALSE, t |-> t, err |-> msg]

general == <<"g", "e", "n">>   \* the default category 'general', abbreviated

validPriorities == {"low", "medium", "high", "urgent"}
validStatuses == {"pending", "in-progress", "blocked", "completed", "cancelled"}

\* new Date(v) for the values the model passes around
ParseDate(v) ==
    CASE v[1] = "date" -> v
      [] v[1] = "iso" -> Date(v[2])
      [] v[1] = "str" -> Date(v[2])
      [] OTHER -> InvalidDate

\* Date.prototype.toISOString (callers check for InvalidDate, on which it throws)
toISOString(d) == Iso(d[2])

_validateCategory(category) == trim(toLowerCase(category))

_validateTags(tags) == [i \in 1..Len(tags) |-> trim(toLowerCase(tags[i]))]

_validateHoursOk(hours) == hours = Null \/ hours[1] >= 0

\* constructor(title, description, userId, options): the entity, or the error
\* the constructor throws. gen is what _generateId() returns, t is new Date().
TaskNew(title, userId, o, gen, t) ==
    LET p == IF o.priority = "" THEN "medium" ELSE o.priority
        s == IF o.status = "" THEN "pending" ELSE o.status
        bad == [id |-> "", title |-> <<>>, userId |-> userId]
    IN  IF title = Null \/ trim(title) = <<>>
        THEN Err(bad, "Task title is required and must be a non-empty string")
        ELSE IF userId = ""
        THEN Err(bad, "User ID is required and must be a non-empty string")
        ELSE IF p \notin validPriorities THEN Err(bad, "Invalid priority")
        ELSE IF ~_validateHoursOk(o.estimatedHours) \/ ~_validateHoursOk(o.actualHours)
        THEN Err(bad, "Hours must be a positive number or null")
        ELSE IF s \notin validStatuses THEN Err(bad, "Invalid status")
        ELSE Ok([
            id |-> IF o.id = "" THEN gen ELSE o.id,
            createdAt |-> IF o.createdAt = Null THEN Date(t) ELSE ParseDate(o.createdAt),
            title |-> trim(title),
            priority |-> p,
            completed |-> o.completed,
            updatedAt |-> IF o.updatedAt = Null THEN Date(t) ELSE ParseDate(o.updatedAt),
            userId |-> userId,
            assignedTo |-> IF o.assignedTo = "" THEN userId ELSE o.assignedTo,
            category |-> _validateCategory(IF o.category = Null THEN general ELSE o.category),
            tags |-> _validateTags(o.tags),
            dueDate |-> IF o.dueDate = Null THEN Null ELSE ParseDate(o.dueDate),
            estimatedHours |-> o.estimatedHours,
            actualHours |-> o.actualHours,
            status |-> s,
            completedAt |-> IF o.completedAt = Null THEN Null ELSE ParseDate(o.completedAt),
            dependencies |-> o.dependencies ])

\* a Date object holding a valid time: what toISOString() can be called on
IsDate(d) == d # Null /\ d[1] = "date"

\* toJSON() throws on a timestamp that is an Invalid Date (RangeError of
\* toISOString) or not a Date at all (TypeError: no toISOString)
toJSONThrows(e) ==
    \/ ~IsDate(e.createdAt)
    \/ ~IsDate(e.updatedAt)
    \/ e.dueDate # Null /\ ~IsDate(e.dueDate)
    \/ e.completedAt # Null /\ ~IsDate(e.completedAt)

toJSON(e) ==
    [ id |-> e.id,
      title |-> e.title,
      userId |-> e.userId,
      assignedTo |-> e.assignedTo,
      priority |-> e.priority,
      category |-> e.category,
      tags |-> e.tags,
      completed |-> e.completed,
      status |-> e.status,
      dueDate |-> IF e.dueDate = Null THEN Null ELSE toISOString(e.dueDate),
      estimatedHours |-> e.estimatedHours,
      actualHours |-> e.actualHours,
      dependencies |-> e.dependencies,
      createdAt |-> toISOString(e.createdAt),
      updatedAt |-> toISOString(e.updatedAt),
      completedAt |-> IF e.completedAt = Null THEN Null ELSE toISOString(e.completedAt) ]

fromJSON_NoAssignee(data, gen, t) ==
    TaskNew(data.title, data.userId, [data EXCEPT !.assignedTo = ""], gen, t)

\* static fromJSON(data): the row is handed to the constructor as its options
fromJSON(data, gen, t) == TaskNew(data.title, data.userId, data, gen, t)

_touch(e, t) == [e EXCEPT !.updatedAt = Date(t)]

updateTitle(e, newTitle, t) ==
    IF newTitle = Null \/ trim(newTitle) = <<>>
    THEN Err(e, "Task title cannot be empty")
    ELSE Ok(_touch([e EXCEPT !.title = trim(newTitle)], t))

updatePriority(e, newPriority, t) ==
    IF newPriority \notin validPriorities
    THEN Err(e, "Invalid priority")
    ELSE Ok(_touch([e EXCEPT !.priority = newPriority], t))

markComplete(e, t) ==
    IF e.completed THEN e
    ELSE _touch([e EXCEPT !.completed = TRUE, !.status = "completed",
                          !.completedAt = Date(t)], t)

markIncomplete(e, t) ==
    IF ~e.completed THEN e
    ELSE _touch([e EXCEPT !.completed = FALSE, !.status = "pending",
                          !.completedAt = Null], t)

setCategory(e, category, t) ==
    IF category = Null
    THEN Err(e, "Category must be a non-empty string")
    ELSE Ok(_touch([e EXCEPT !.category = _validateCategory(category)], t))

setDueDate(e, date, t) ==
    LET d == IF date = Null THEN Null ELSE ParseDate(date)
    IN  IF d = InvalidDate
        THEN Err(e, "Invalid due date")
        ELSE Ok(_touch([e EXCEPT !.dueDate = d], t))

setEstimatedHours(e, hours, t) ==
    IF ~_validateHoursOk(hours)
    THEN Err(e, "Hours must be a positive number or null")
    ELSE Ok(_touch([e EXCEPT !.estimatedHours = hours], t))

setActualHours(e, hours, t) ==
    IF ~_validateHoursOk(hours)
    THEN Err(e, "Hours must be a positive number or null")
    ELSE Ok(_touch([e EXCEPT !.actualHours = hours], t))

setStatus(e, status, t) ==
    IF status \notin validStatuses
    THEN Err(e, "Invalid status")
    ELSE LET e1 == [e EXCEPT !.status = status]
         IN  IF status = "completed" /\ ~e1.completed THEN Ok(markComplete(e1, t))
             ELSE IF status # "completed" /\ e1.completed THEN Ok(markIncomplete(e1, t))
             ELSE Ok(e1)

----------------------------------------------------------------------------
(* TaskRepository. A call works on w = [rows, cache, loads, saves]: the
   persisted collection, the repository's cache, and the number of
   storage.load / storage.save calls made so far in the enclosing operation.
   It returns r = [w, ok, err, ret, age, pre]: ret is <<>> for null, <<x>>
   for a value; age is the age of the cache entry the lookup found (-1 if
   none); pre is the hydrated entity an update started from. *)

World(rows, cache) == [rows |-> rows, cache |-> cache, loads |-> 0, saves |-> 0]

Res(w, ok, err, ret) == [w |-> w, ok |-> ok, err |-> err, ret |-> ret, age |-> -1, pre |-> <<>>]

\* Array.prototype.findIndex(t => t.id === id), 1-based; 0 when absent
RECURSIVE FindIndexFrom(_, _, _)
FindIndexFrom(rows, id, i) ==
    IF i > Len(rows) THEN 0
    ELSE IF rows[i].id = id THEN i
    ELSE FindIndexFrom(rows, id, i + 1)

FindIndex(rows, id) == FindIndexFrom(rows, id, 1)

\* Array.prototype.splice(i, 1)
RemoveAt(rows, i) == SubSeq(rows, 1, i - 1) \o SubSeq(rows, i + 1, Len(rows))

IsExpired_AtTTL(entry, expiry, t) == t - entry.timestamp >= expiry

\* the expiry test of _getFromCache
IsExpired(entry, expiry, t) == t - entry.timestamp > expiry

\* _getFromCache(id): the cached data (Null on a miss) and the cache after the
\* eviction of an expired entry
_getFromCache_Renews(cache, id, expiry, t) ==
    IF cache[id] = NoEntry THEN [data |-> Null, cache |-> cache, age |-> -1]
    ELSE IF IsExpired(cache[id], expiry, t)
    THEN [data |-> Null, cache |-> [cache EXCEPT ![id] = NoEntry],
          age |-> t - cache[id].timestamp]
    ELSE [data |-> <<cache[id].data>>, cache |-> [cache EXCEPT ![id].timestamp = t],
          age |-> t - cache[id].timestamp]

_getFromCache(cache, id, expiry, t) ==
    IF cache[id] = NoEntry THEN [data |-> Null, cache |-> cache, age |-> -1]
    ELSE IF IsExpired(cache[id], expiry, t)
    THEN [data |-> Null, cache |-> [cache EXCEPT ![id] = NoEntry],
          age |-> t - cache[id].timestamp]
    ELSE [data |-> <<cache[id].data>>, cache |-> cache, age |-> t - cache[id].timestamp]

CacheSet_NoWrite(cache, id, data, t) == cache

\* this._cache.set(id, {data, timestamp: Date.now()})
CacheSet(cache, id, data, t) == [cache EXCEPT ![id] = [data |-> data, timestamp |-> t]]

_getAllTasks(w) == [w EXCEPT !.loads = @ + 1]

_saveTasks(w, rows) == [w EXCEPT !.rows = rows, !.saves = @ + 1]

HasDuplicate_Never(rows, id) == FALSE

\* the duplicate-id test of create
HasDuplicate(rows, id) == FindIndex(rows, id) # 0

\* create(task), task a Task entity
TaskCreate(w, e, t) ==
    LET w1 == _getAllTasks(w)
    IN  IF HasDuplicate(w1.rows, e.id)
        THEN Res(w1, FALSE, "Task already exists", <<>>)
        ELSE IF toJSONThrows(e)
        THEN Res(w1, FALSE, "Invalid time value", <<>>)
        ELSE LET w2 == _saveTasks(w1, Append(w1.rows, toJSON(e)))
             IN  Res([w2 EXCEPT !.cache = CacheSet(w2.cache, e.id, e, t)], TRUE, "", <<e>>)

\* findById(id)
TaskFindById(w, id, t) ==
    LET c == _getFromCache(w.cache, id, TaskCacheExpiry, t)
        w0 == [w EXCEPT !.cache = c.cache]
    IN  IF c.data # Null
        THEN [Res(w0, TRUE, "", c.data) EXCEPT !.age = c.age]
        ELSE LET w1 == _getAllTasks(w0)
                 i == FindIndex(w1.rows, id)
             IN  IF i = 0 THEN [Res(w1, TRUE, "", <<>>) EXCEPT !.age = c.age]
                 ELSE LET h == fromJSON(w1.rows[i], GenTaskId, t)
                      IN  IF ~h.ok THEN [Res(w1, FALSE, h.err, <<>>) EXCEPT !.age = c.age]
                          ELSE [Res([w1 EXCEPT !.cache = CacheSet(w1.cache, id, h.t, t)],
                                    TRUE, "", <<h.t>>) EXCEPT !.age = c.age]

\* An updates object is the sequence of its key/value pairs in Object.keys
\* order
U(key, val) == [key |-> key, val |-> val]

\* One key of update's Object.keys(updates).forEach: the setter or update
\* method of that name if the entity has one, else the direct write of _key;
\* a key the entity does not own is skipped.
ApplyKey(e, key, val, t) ==
    CASE key = "title" -> updateTitle(e, val, t)
      [] key = "priority" -> updatePriority(e, val, t)
      [] key = "category" -> setCategory(e, val, t)
      [] key = "dueDate" -> setDueDate(e, val, t)
      [] key = "estimatedHours" -> setEstimatedHours(e, val, t)
      [] key = "actualHours" -> setActualHours(e, val, t)
      [] key = "status" -> setStatus(e, val, t)
      [] key = "id" -> Ok([e EXCEPT !.id = val])
      [] key = "completed" -> Ok([e EXCEPT !.completed = val])
      [] key = "userId" -> Ok([e EXCEPT !.userId = val])
      [] key = "assignedTo" -> Ok([e EXCEPT !.assignedTo = val])
      [] key = "tags" -> Ok([e EXCEPT !.tags = val])
      [] key = "dependencies" -> Ok([e EXCEPT !.dependencies = val])
      [] key = "createdAt" -> Ok([e EXCEPT !.createdAt = val])
      [] key = "updatedAt" -> Ok([e EXCEPT !.updatedAt = val])
      [] key = "completedAt" -> Ok([e EXCEPT !.completedAt = val])
      [] OTHER -> Ok(e)

RECURSIVE ApplyUpdates_SkipsRejected(_, _, _)
ApplyUpdates_SkipsRejected(e, upd, t) ==
    IF upd = <<>> THEN Ok(e)
    ELSE LET r == ApplyKey(e, Head(upd).key, Head(upd).val, t)
         IN  ApplyUpdates_SkipsRejected(IF r.ok THEN r.t ELSE e, Tail(upd), t)

RECURSIVE ApplyUpdates(_, _, _)
ApplyUpdates(e, upd, t) ==
    IF upd = <<>> THEN Ok(e)
    ELSE LET r == ApplyKey(e, Head(upd).key, Head(upd).val, t)
         IN  IF ~r.ok THEN r ELSE ApplyUpdates(r.t, Tail(upd), t)

\* update(id, updates)
TaskUpdate(w, id, upd, t) ==
    LET w1 == _getAllTasks(w)
        i == FindIndex(w1.rows, id)
    IN  IF i = 0 THEN Res(w1, TRUE, "", <<>>)
        ELSE LET h == fromJSON(w1.rows[i], GenTaskId, t)
             IN  IF ~h.ok THEN Res(w1, FALSE, h.err, <<>>)
                 ELSE LET a == ApplyUpdates(h.t, upd, t)
                          e == [a.t EXCEPT !.updatedAt = Date(t)]
                      IN  IF ~a.ok THEN [Res(w1, FALSE, a.err, <<>>) EXCEPT !.pre = <<h.t>>]
                          ELSE IF toJSONThrows(e)
                          THEN [Res(w1, FALSE, "Invalid time value", <<>>) EXCEPT !.pre = <<h.t>>]
                          ELSE LET w2 == _saveTasks(w1, [w1.rows EXCEPT ![i] = toJSON(e)])
                               IN  [Res([w2 EXCEPT !.cache = CacheSet(w2.cache, id, e, t)],
                                        TRUE, "", <<e>>) EXCEPT !.pre = <<h.t>>]

\* delete(id)
TaskDelete(w, id) ==
    LET w1 == _getAllTasks(w)
        i == FindIndex(w1.rows, id)
    IN  IF i = 0 THEN Res(w1, TRUE, "", <<FALSE>>)
        ELSE LET w2 == _saveTasks(w1, RemoveAt(w1.rows, i))
             IN  Res([w2 EXCEPT !.cache = [w2.cache EXCEPT ![id] = NoEntry]], TRUE, "", <<TRUE>>)

\* findAll() without options: every row hydrated (the first row that cannot be
\* hydrated makes the call fail)
RECURSIVE HydrateAll(_, _)
HydrateAll(rows, t) ==
    IF rows = <<>> THEN [ok |-> TRUE, err |-> "", list |-> <<>>]
    ELSE LET h == fromJSON(Head(rows), GenTaskId, t)
             rest == HydrateAll(Tail(rows), t)
         IN  IF ~h.ok THEN [ok |-> FALSE, err |-> h.err, list |-> <<>>]
             ELSE IF ~rest.ok THEN rest
             ELSE [ok |-> TRUE, err |-> "", list |-> <<h.t>> \o rest.list]

TaskFindAll(w, t) ==
    LET w1 == _getAllTasks(w)
        h == HydrateAll(w1.rows, t)
    IN  IF ~h.ok THEN Res(w1, FALSE, h.err, <<>>) ELSE Res(w1, TRUE, "", h.list)

findOverdueTest_IgnoresCompleted(e, t) ==
    e.dueDate # Null /\ IsDate(ParseDate(e.dueDate)) /\ ParseDate(e.dueDate)[2] < t

\* the filter callback of findOverdue: !task.completed && task.dueDate &&
\* new Date(task.dueDate) < now
findOverdueTest(e, t) ==
    /\ ~e.completed
    /\ e.dueDate # Null
    /\ IsDate(ParseDate(e.dueDate))
    /\ ParseDate(e.dueDate)[2] < t

\* findOverdue after findAll() returned a
findOverdueAmong(a, t) ==
    IF ~a.ok THEN a ELSE [a EXCEPT !.ret = SelectSeq(a.ret, LAMBDA e : findOverdueTest(e, t))]

\* TaskRepository.findOverdue()
TaskFindOverdue(w, t) == findOverdueAmong(TaskFindAll(w, t), t)

----------------------------------------------------------------------------
(* User entity and UserRepository. The User class is not among the sources:
   the entity is a record of the fields the repository and the controller
   read (id, username, email, role, isAdmin), with username and email
   case-normalized and isAdmin derived from the role. *)

adminRoles == {"admin", "super-admin"}

UserNew(o) ==
    [id |-> o.id, username |-> trim(toLowerCase(o.username)),
     email |-> trim(toLowerCase(o.email)), role |-> o.role,
     isAdmin |-> o.role \in adminRoles]

userToJSON(u) == [id |-> u.id, username |-> u.username, email |-> u.email, role |-> u.role]

_hydrateUser(data) == UserNew(data)

\* _validateUser(user): username and email present, email of the form x@y.z
\* (here: it holds an "@")
_validateUserOk(u) ==
    /\ u.username # Null /\ trim(u.username) # <<>>
    /\ u.email # Null /\ trim(u.email) # <<>>
    /\ Includes(u.email, "@")

_getAllUsers(w) == [w EXCEPT !.loads = @ + 1]

_saveUsers(w, rows) == [w EXCEPT !.rows = rows, !.saves = @ + 1]

\* the duplicate tests of UserRepository.create: username and email only
UserHasDuplicate(rows, u) ==
    \/ \E i \in 1..Len(rows) : rows[i].username = u.username
    \/ \E i \in 1..Len(rows) : rows[i].email = u.email

\* create(user)
UserCreate(w, u, t) ==
    IF ~_validateUserOk(u) THEN Res(w, FALSE, "Invalid user", <<>>)
    ELSE LET w1 == _getAllUsers(w)
         IN  IF UserHasDuplicate(w1.rows, u)
             THEN Res(w1, FALSE, "Username or email already exists", <<>>)
             ELSE LET w2 == _saveUsers(w1, Append(w1.rows, userToJSON(u)))
                  IN  Res([w2 EXCEPT !.cache = CacheSet(w2.cache, u.id, u, t)], TRUE, "", <<u>>)

\* findById(id)
UserFindById(w, id, t) ==
    LET c == _getFromCache(w.cache, id, UserCacheExpiry, t)
        w0 == [w EXCEPT !.cache = c.cache]
    IN  IF c.data # Null
        THEN [Res(w0, TRUE, "", c.data) EXCEPT !.age = c.age]
        ELSE LET w1 == _getAllUsers(w0)
                 i == FindIndex(w1.rows, id)
             IN  IF i = 0 THEN [Res(w1, TRUE, "", <<>>) EXCEPT !.age = c.age]
                 ELSE LET u == _hydrateUser(w1.rows[i])
                      IN  [Res([w1 EXCEPT !.cache = CacheSet(w1.cache, id, u, t)],
                               TRUE, "", <<u>>) EXCEPT !.age = c.age]

\* One key of UserRepository.update's forEach, for a User without a mutator
\* of that name: the direct write of _key
UserApplyKey(u, key, val) ==
    CASE key = "username" -> [u EXCEPT !.username = val]
      [] key = "email" -> [u EXCEPT !.email = val]
      [] key = "role" -> [u EXCEPT !.role = val]
      [] OTHER -> u

\* update(id, updates), updates of one key
UserUpdate(w, id, upd, t) ==
    LET w1 == _getAllUsers(w)
        i == FindIndex(w1.rows, id)
    IN  IF i = 0 THEN Res(w1, TRUE, "", <<>>)
        ELSE LET h == _hydrateUser(w1.rows[i])
                 u == UserApplyKey(h, upd.key, upd.val)
                 w2 == _saveUsers(w1, [w1.rows EXCEPT ![i] = userToJSON(u)])
             IN  [Res([w2 EXCEPT !.cache = CacheSet(w2.cache, id, u, t)], TRUE, "", <<u>>)
                    EXCEPT !.pre = <<h>>]

\* delete(id)
UserDelete(w, id) ==
    LET w1 == _getAllUsers(w)
        i == FindIndex(w1.rows, id)
    IN  IF i = 0 THEN Res(w1, TRUE, "", <<FALSE>>)
        ELSE LET w2 == _saveUsers(w1, RemoveAt(w1.rows, i))
             IN  Res([w2 EXCEPT !.cache = [w2.cache EXCEPT ![id] = NoEntry]], TRUE, "", <<TRUE>>)

----------------------------------------------------------------------------
(* TaskService and TaskController. A controller call works on the two
   repositories' worlds wt and wu and on the controller's current user cu; it
   returns [wt, wu, ok, err, ret, pre], pre being the task the handler fetched.
   handleError re-throws the error it is given, so err is the message of the
   first failure; log is the sequence of the events the call emitted, those of
   the service and those of the controller, in the order of emission; filter
   is <<type>> when the call assigned currentFilter and shown is <<tasks>> when
   it handed tasks to the view's displayTasks (<<>> otherwise); stats is
   <<statistics>> when it handed statistics to the view's displayStats, the
   last ones if it did so more than once. The view's own bookkeeping of its
   list (addTask, updateTask, removeTask) is not modelled. *)

CtlRes(wt, wu, ok, err, ret, pre) ==
    [wt |-> wt, wu |-> wu, ok |-> ok, err |-> err, ret |-> ret, pre |-> pre, log |-> <<>>,
     filter |-> <<>>, shown |-> <<>>, stats |-> <<>>]

\* an event as a listener receives it: its type and, of its data, the
\* operation and the message (error events), the task's id (task events) and
\* the timestamp (-1 when the data has none)
Event(src, type, operation, error, id, at) ==
    [src |-> src, type |-> type, operation |-> operation, error |-> error, id |-> id,
     at |-> at]

TaskEvents == {"taskCreated", "taskUpdated", "taskDeleted"}

\* the catch block of the TaskService methods: notifyListeners('error',
\* {operation, error: error.message}); throw error
ServiceThrow(wt, wu, err, operation) ==
    [CtlRes(wt, wu, FALSE, err, <<>>, <<>>)
        EXCEPT !.log = <<Event("service", "error", operation, err, "", -1)>>]

\* createTask after taskRepository.create returned c
createTaskSaved(c, wu) ==
    IF ~c.ok THEN ServiceThrow(c.w, wu, c.err, "createTask")
    ELSE [CtlRes(c.w, wu, TRUE, "", c.ret, <<>>)
            EXCEPT !.log = <<Event("service", "taskCreated", "", "", c.ret[1].id, -1)>>]

\* createTask after new Task(...) returned or threw (n)
createTaskBuilt(n, wt, wu, t) ==
    IF ~n.ok THEN ServiceThrow(wt, wu, n.err, "createTask")
    ELSE createTaskSaved(TaskCreate(wt, n.t, t), wu)

createTaskForUser_NoUserCheck(f, wt, taskData, t) ==
    IF ~f.ok THEN ServiceThrow(wt, f.w, f.err, "createTask")
    ELSE createTaskBuilt(TaskNew(taskData.title, taskData.userId, taskData, GenTaskId, t),
                         wt, f.w, t)

\* createTask after userRepository.findById(taskData.userId) returned f
createTaskForUser(f, wt, taskData, t) ==
    IF ~f.ok THEN ServiceThrow(wt, f.w, f.err, "createTask")
    ELSE IF f.ret = <<>> THEN ServiceThrow(wt, f.w, "User not found", "createTask")
    ELSE createTaskBuilt(TaskNew(taskData.title, taskData.userId, taskData, GenTaskId, t),
                         wt, f.w, t)

\* TaskService.createTask(taskData)
serviceCreateTask(wt, wu, taskData, t) ==
    createTaskForUser(UserFindById(wu, taskData.userId, t), wt, taskData, t)

updateTaskSaved_AlwaysNotify(u, wu, taskId) ==
    IF ~u.ok THEN [ServiceThrow(u.w, wu, u.err, "updateTask") EXCEPT !.pre = u.pre]
    ELSE [CtlRes(u.w, wu, TRUE, "", u.ret, u.pre)
            EXCEPT !.log = <<Event("service", "taskUpdated", "", "", taskId, -1)>>]

\* updateTask after taskRepository.update returned u
updateTaskSaved(u, wu, taskId) ==
    IF ~u.ok THEN [ServiceThrow(u.w, wu, u.err, "updateTask") EXCEPT !.pre = u.pre]
    ELSE [CtlRes(u.w, wu, TRUE, "", u.ret, u.pre)
            EXCEPT !.log = IF u.ret # <<>>
                           THEN <<Event("service", "taskUpdated", "", "", u.ret[1].id, -1)>>
                           ELSE <<>>]

\* TaskService.updateTask(taskId, updates)
serviceUpdateTask(wt, wu, taskId, updates, t) ==
    updateTaskSaved(TaskUpdate(wt, taskId, updates, t), wu, taskId)

\* deleteTask after taskRepository.delete returned d
deleteTaskDone(d, wu, taskId) ==
    IF ~d.ok THEN ServiceThrow(d.w, wu, d.err, "deleteTask")
    ELSE [CtlRes(d.w, wu, TRUE, "", d.ret, <<>>)
            EXCEPT !.log = IF d.ret[1]
                           THEN <<Event("service", "taskDeleted", "", "", taskId, -1)>>
                           ELSE <<>>]

\* TaskService.deleteTask(taskId)
serviceDeleteTask(wt, wu, taskId) == deleteTaskDone(TaskDelete(wt, taskId), wu, taskId)

\* the callbacks that get registered: the controller's handleTaskServiceEvent
\* ("ctl"), loggers ("log", "tap") and a callback that throws ("bad")
ListenerPool == {"log", "tap", "bad"}

Throws(listener) == listener = "bad"

\* Set.prototype.add: insertion order, no second entry for the same callback
addListener(listeners, listener) ==
    IF Includes(listeners, listener) THEN listeners ELSE Append(listeners, listener)

\* Set.prototype.delete
removeListener(listeners, listener) ==
    SelectSeq(listeners, LAMBDA l : l # listener)

RECURSIVE notifyFrom_NoCatch(_, _, _)
notifyFrom_NoCatch(listeners, i, event) ==
    IF i > Len(listeners) THEN [calls |-> <<>>, thrown |-> FALSE]
    ELSE LET call == [listener |-> listeners[i], event |-> event]
             rest == notifyFrom_NoCatch(listeners, i + 1, event)
         IN  IF Throws(listeners[i]) THEN [calls |-> <<call>>, thrown |-> TRUE]
             ELSE [calls |-> <<call>> \o rest.calls, thrown |-> rest.thrown]

\* the forEach of notifyListeners from the i-th listener on: the call is made
\* inside try/catch, so what a listener throws is logged and the loop goes on
RECURSIVE notifyFrom(_, _, _)
notifyFrom(listeners, i, event) ==
    IF i > Len(listeners) THEN [calls |-> <<>>, thrown |-> FALSE]
    ELSE LET call == [listener |-> listeners[i], event |-> event]
             rest == notifyFrom(listeners, i + 1, event)
         IN  [calls |-> <<call>> \o rest.calls, thrown |-> rest.thrown]

\* notifyListeners(eventType, data) of TaskService and of BaseController
notifyListeners(listeners, event) == notifyFrom(listeners, 1, event)

\* the notifications of a call, one notifyListeners per emitted event, each to
\* the listeners of its emitter
RECURSIVE NotifyAll(_, _, _)
NotifyAll(log, sl, cl) ==
    IF log = <<>> THEN [calls |-> <<>>, thrown |-> FALSE]
    ELSE LET n == notifyListeners(IF Head(log).src = "service" THEN sl ELSE cl, Head(log))
             rest == NotifyAll(Tail(log), sl, cl)
         IN  [calls |-> n.calls \o rest.calls, thrown |-> n.thrown \/ rest.thrown]

\* validateParams(params, required) on the required values: the string-valued
\* ones and the ids; undefined, null and '' are missing
validateParams(values, ids) ==
    /\ \A i \in 1..Len(values) : values[i] # Null
    /\ \A i \in 1..Len(ids) : ids[i] # ""

handleError_Silent(r, operation, t) == r

\* the catch block of a controller method around the outcome r of its try
\* block: handleError(error, operation) notifies 'error' with the operation,
\* the message and new Date(), and throws the error again
handleError(r, operation, t) ==
    IF r.ok THEN r
    ELSE [r EXCEPT !.log = Append(@, Event("controller", "error", operation, r.err, "", t))]

\* this.notifyListeners(type, data) at the end of a try block
Emit(r, type, id) == [r EXCEPT !.log = Append(@, Event("controller", type, "", "", id, -1))]

\* the outcome b of what a method awaits after the outcome a
After(a, b) ==
    [b EXCEPT !.log = a.log \o @,
              !.filter = IF @ = <<>> THEN a.filter ELSE @,
              !.shown = IF @ = <<>> THEN a.shown ELSE @,
              !.stats = IF @ = <<>> THEN a.stats ELSE @]

\* reading this.currentUser.id while currentUser is null
NullUser == "Cannot read properties of null (reading 'id')"

canModifyTask_AnyUser(task, cu) == task # <<>> /\ cu # NoUser

\* canModifyTask(task), task given as <<>> for null or <<entity>>
canModifyTask(task, cu) ==
    IF task = <<>> \/ cu = NoUser THEN FALSE
    ELSE IF task[1].userId = cu.id \/ task[1].assignedTo = cu.id THEN TRUE
    ELSE IF cu.isAdmin THEN TRUE
    ELSE FALSE

\* the options of findAll that the service passes: '' / Null / <<>> when absent
NoOptions ==
    [userId |-> "", completed |-> <<>>, priority |-> "", category |-> Null, assignedTo |-> ""]

Matches_NoAssignee(e, o) ==
    /\ o.userId # "" => e.userId = o.userId
    /\ o.completed # <<>> => e.completed = o.completed[1]
    /\ o.priority # "" => e.priority = o.priority
    /\ o.category # Null => e.category = o.category

\* the filters of findAll(options): each is applied only when its option is
\* truthy (completed: when it is not undefined)
Matches(e, o) ==
    /\ o.userId # "" => e.userId = o.userId
    /\ o.completed # <<>> => e.completed = o.completed[1]
    /\ o.priority # "" => e.priority = o.priority
    /\ o.category # Null => e.category = o.category
    /\ o.assignedTo # "" => e.assignedTo = o.assignedTo

\* the filters applied to the hydrated rows a
Filtered(a, o) ==
    IF ~a.ok THEN a ELSE [a EXCEPT !.ret = SelectSeq(a.ret, LAMBDA e : Matches(e, o))]

\* TaskRepository.findAll(options) for the options above
TaskFindAllWhere(w, o, t) == Filtered(TaskFindAll(w, t), o)

----------------------------------------------------------------------------
(* The query engine of findAll(options): filters, then sort, then slice *)

\* an options object with no filter, no sort and no pagination; limit and
\* offset are <<>> when undefined, <<n>> otherwise
NoQuery ==
    [userId |-> "", completed |-> <<>>, priority |-> "", category |-> Null, assignedTo |-> "",
     role |-> "", sortBy |-> "", sortOrder |-> "", limit |-> <<>>, offset |-> <<>>]

\* the UTF-16 code unit of a character
CharCode(c) ==
    CASE c = " " -> 32   [] c = "@" -> 64   [] c = "A" -> 65   [] c = "B" -> 66
      [] c = "W" -> 87   [] c = "a" -> 97   [] c = "b" -> 98   [] c = "d" -> 100
      [] c = "e" -> 101  [] c = "g" -> 103  [] c = "h" -> 104  [] c = "i" -> 105
      [] c = "l" -> 108  [] c = "m" -> 109  [] c = "n" -> 110  [] c = "o" -> 111
      [] c = "r" -> 114  [] c = "t" -> 116  [] c = "u" -> 117  [] c = "w" -> 119

\* the characters of a priority
Chars(p) ==
    CASE p = "low" -> <<"l", "o", "w">>
      [] p = "medium" -> <<"m", "e", "d", "i", "u", "m">>
      [] p = "high" -> <<"h", "i", "g", "h">>
      [] p = "urgent" -> <<"u", "r", "g", "e", "n", "t">>

\* a < b on strings: by code units, a proper prefix first
RECURSIVE StringLess(_, _)
StringLess(a, b) ==
    IF b = <<>> THEN FALSE
    ELSE IF a = <<>> THEN TRUE
    ELSE IF CharCode(Head(a)) # CharCode(Head(b)) THEN CharCode(Head(a)) < CharCode(Head(b))
    ELSE StringLess(Tail(a), Tail(b))

\* aValue / bValue of the comparator: a[sortBy], turned into a Date when the
\* field's name includes 'Date' or 'At' (new Date(null) is the epoch), lower
\* case when it is a string
SortValue(e, sortBy) ==
    CASE sortBy = "dueDate" ->
            [isDate |-> TRUE, s |-> <<>>,
             time |-> IF e.dueDate = Null THEN 0 ELSE ParseDate(e.dueDate)[2]]
      [] sortBy = "priority" -> [isDate |-> FALSE, s |-> toLowerCase(Chars(e.priority)), time |-> 0]
      [] sortBy = "title" -> [isDate |-> FALSE, s |-> toLowerCase(e.title), time |-> 0]
      [] sortBy = "username" -> [isDate |-> FALSE, s |-> toLowerCase(e.username), time |-> 0]

\* aValue > bValue
Greater(x, y) == IF x.isDate THEN x.time > y.time ELSE StringLess(y.s, x.s)

comparison_IgnoresOrder(a, b, sortBy, sortOrder) ==
    IF Greater(SortValue(a, sortBy), SortValue(b, sortBy)) THEN 1
    ELSE IF Greater(SortValue(b, sortBy), SortValue(a, sortBy)) THEN -1
    ELSE 0

\* what the comparator of _sortTasks returns for a and b
comparison(a, b, sortBy, sortOrder) ==
    IF sortOrder = "desc"
    THEN 0 - comparison_IgnoresOrder(a, b, sortBy, sortOrder)
    ELSE comparison_IgnoresOrder(a, b, sortBy, sortOrder)

\* Array.prototype.sort is stable: an element goes behind the elements before
\* it that do not compare greater
SortInsert(sorted, e, sortBy, sortOrder) ==
    LET n == Cardinality({i \in 1..Len(sorted) : comparison(sorted[i], e, sortBy, sortOrder) <= 0})
    IN  SubSeq(sorted, 1, n) \o <<e>> \o SubSeq(sorted, n + 1, Len(sorted))

\* TaskRepository._sortTasks(tasks, sortBy, sortOrder)
RECURSIVE _sortTasks(_, _, _)
_sortTasks(list, sortBy, sortOrder) ==
    IF list = <<>> THEN <<>>
    ELSE SortInsert(_sortTasks(SubSeq(list, 1, Len(list) - 1), sortBy, sortOrder),
                    list[Len(list)], sortBy, sortOrder)

\* UserRepository._sortUsers: the same comparator over users
_sortUsers(list, sortBy, sortOrder) == _sortTasks(list, sortBy, sortOrder)

\* a limit or an offset that is neither undefined nor 0
Truthy(n) == n # <<>> /\ n[1] # 0

\* Array.prototype.slice(start, end) for 0 <= start <= end
slice(list, start, end) ==
    SubSeq(list, start + 1, IF end < Len(list) THEN end ELSE Len(list))

\* the pagination of findAll: if (options.limit || options.offset), with
\* offset = options.offset || 0 and limit = options.limit || result.length
paginate(list, o) ==
    IF Truthy(o.limit) \/ Truthy(o.offset)
    THEN LET offset == IF Truthy(o.offset) THEN o.offset[1] ELSE 0
             limit == IF Truthy(o.limit) THEN o.limit[1] ELSE Len(list)
         IN  slice(list, offset, offset + limit)
    ELSE list

\* the sort and the slice of findAll over the filtered rows a
Arranged(a, o) ==
    IF ~a.ok THEN a
    ELSE [a EXCEPT !.ret = paginate(IF o.sortBy # "" THEN _sortTasks(@, o.sortBy, o.sortOrder)
                                                     ELSE @, o)]

\* TaskRepository.findAll(options)
TaskFindAllQuery(w, o, t) == Arranged(TaskFindAllWhere(w, o, t), o)

\* UserRepository.findAll(options): the role filter, the sort and the slice
UserFindAllQuery(w, o) ==
    LET w1 == _getAllUsers(w)
        all == [i \in 1..Len(w1.rows) |-> _hydrateUser(w1.rows[i])]
        result == IF o.role # "" THEN SelectSeq(all, LAMBDA u : u.role = o.role) ELSE all
    IN  Res(w1, TRUE, "",
            paginate(IF o.sortBy # "" THEN _sortUsers(result, o.sortBy, o.sortOrder)
                                      ELSE result, o))

isOverdue_AtDueDate(e, t) ==
    e.dueDate # Null /\ ~e.completed /\ IsDate(e.dueDate) /\ t >= e.dueDate[2]

\* Task.isOverdue at clock value t
isOverdue(e, t) == e.dueDate # Null /\ ~e.completed /\ IsDate(e.dueDate) /\ t > e.dueDate[2]

filterTypes == {"all", "pending", "completed", "overdue", "priority", "category", "assigned"}

\* the options of the findAll behind the query of TaskService that
\* filterTasks' switch picks for the filter type; the filter value is Null or
\* <<value>>
FilterOptions(userId, filterType, filterValue) ==
    CASE filterType = "pending" -> [NoOptions EXCEPT !.userId = userId, !.completed = <<FALSE>>]
      [] filterType = "completed" -> [NoOptions EXCEPT !.userId = userId, !.completed = <<TRUE>>]
      [] filterType = "priority" ->
            [NoOptions EXCEPT !.userId = userId,
                              !.priority = IF filterValue = Null THEN "" ELSE filterValue[1]]
      [] filterType = "category" ->
            [NoOptions EXCEPT !.userId = userId,
                              !.category = IF filterValue = Null THEN Null ELSE filterValue[1]]
      [] filterType = "assigned" -> [NoOptions EXCEPT !.assignedTo = userId]
      [] OTHER -> [NoOptions EXCEPT !.userId = userId]

\* getOverdueTasks keeps the overdue ones of the user's tasks a
OverdueOnly(a, filterType, t) ==
    IF a.ok /\ filterType = "overdue"
    THEN [a EXCEPT !.ret = SelectSeq(a.ret, LAMBDA e : isOverdue(e, t))]
    ELSE a

\* the query itself
FilterQuery(w, userId, filterType, filterValue, t) ==
    OverdueOnly(TaskFindAllWhere(w, FilterOptions(userId, filterType, filterValue), t),
                filterType, t)

\* filterTasks after the query returned q: the tasks are handed to the view's
\* displayTasks and 'tasksFiltered' is notified
filterTasksFound(q, wu) ==
    IF ~q.ok THEN CtlRes(q.w, wu, FALSE, q.err, <<>>, <<>>)
    ELSE Emit([CtlRes(q.w, wu, TRUE, "", q.ret, <<>>) EXCEPT !.shown = <<q.ret>>],
              "tasksFiltered", "")

\* TaskController.filterTasks(filterType, filterValue): currentFilter is
\* assigned first, whatever the type
filterTasks(wt, wu, cu, filterType, filterValue, t) ==
    handleError(
        [(IF filterType \notin filterTypes
          THEN CtlRes(wt, wu, FALSE, "Unknown filter type", <<>>, <<>>)
          ELSE IF cu = NoUser THEN CtlRes(wt, wu, FALSE, NullUser, <<>>, <<>>)
          ELSE filterTasksFound(FilterQuery(wt, cu.id, filterType, filterValue, t), wu))
           EXCEPT !.filter = <<filterType>>],
        "filterTasks", t)

\* TaskRepository.getStatistics over the tasks it found: the counts, the
\* three priorities it breaks down by, and the count of every category
getStatistics(list, t) ==
    [ total |-> Len(list),
      completed |-> Len(SelectSeq(list, LAMBDA e : e.completed)),
      pending |-> Len(SelectSeq(list, LAMBDA e : ~e.completed)),
      overdue |-> Len(SelectSeq(list, LAMBDA e : findOverdueTest(e, t))),
      byPriority |-> [p \in {"high", "medium", "low"} |->
                         Len(SelectSeq(list, LAMBDA e : e.priority = p))],
      byCategory |-> [c \in {list[i].category : i \in 1..Len(list)} |->
                         Len(SelectSeq(list, LAMBDA e : e.category = c))] ]

\* TaskRepository.getStatistics(userId): the statistics of findByUserId(userId)
\* when userId is truthy, of findAll() otherwise
TaskGetStatistics(w, userId, t) ==
    LET a == TaskFindAllWhere(w, [NoOptions EXCEPT !.userId = userId], t)
    IN  IF ~a.ok THEN a ELSE [a EXCEPT !.ret = <<getStatistics(a.ret, t)>>]

statsFound_NotShown(a, wu, t) == CtlRes(a.w, wu, a.ok, a.err, <<>>, <<>>)

\* updateTaskStats after getTaskStats returned a: the statistics are handed
\* to the view's displayStats
statsFound(a, wu, t) ==
    IF ~a.ok THEN CtlRes(a.w, wu, FALSE, a.err, <<>>, <<>>)
    ELSE [CtlRes(a.w, wu, TRUE, "", <<>>, <<>>) EXCEPT !.stats = <<getStatistics(a.ret, t)>>]

\* TaskController.updateTaskStats(): the statistics are computed over the
\* current user's tasks and handed to the view
updateTaskStats(wt, wu, cu, t) ==
    handleError(
        IF cu = NoUser THEN CtlRes(wt, wu, FALSE, NullUser, <<>>, <<>>)
        ELSE statsFound(TaskFindAllWhere(wt, [NoOptions EXCEPT !.userId = cu.id], t), wu, t),
        "updateTaskStats", t)

\* a method after its service call returned u and the updateTaskStats() it
\* awaits next returned s: it notifies its own event, or fails with s
Settled(u, s, pre, type, id) ==
    IF ~s.ok THEN [After(u, s) EXCEPT !.pre = pre]
    ELSE Emit([After(u, s) EXCEPT !.ret = u.ret, !.pre = pre], type, id)

\* refreshTasks after filterTasks(this.currentFilter) returned f
refreshTasksFiltered(f, cu, t) ==
    IF ~f.ok THEN f ELSE After(f, updateTaskStats(f.wt, f.wu, cu, t))

\* TaskController.refreshTasks(): filterTasks(this.currentFilter), without a
\* filter value, then updateTaskStats()
refreshTasks(wt, wu, cu, cf, t) ==
    handleError(refreshTasksFiltered(filterTasks(wt, wu, cu, cf, Null, t), cu, t),
                "refreshTasks", t)

\* initialize after refreshTasks() returned r for the user u
initializeRefreshed(r, u) ==
    IF ~r.ok THEN [r EXCEPT !.ret = u] ELSE Emit([r EXCEPT !.ret = u], "initialized", "")

\* initialize after userService.getUserById(userId) returned f
initializeFound(f, wt, cf, t) ==
    IF ~f.ok THEN CtlRes(wt, f.w, FALSE, f.err, <<>>, <<>>)
    ELSE IF f.ret = <<>> THEN CtlRes(wt, f.w, FALSE, "User not found", <<>>, <<>>)
    ELSE initializeRefreshed(refreshTasks(wt, f.w, f.ret[1], cf, t), f.ret)

\* TaskController.initialize(userId); cf is currentFilter. currentUser is
\* assigned what the lookup returned (ret), null included, before the check
initialize(wt, wu, cf, userId, t) ==
    handleError(initializeFound(UserFindById(wu, userId, t), wt, cf, t), "initialize", t)

\* createTask after TaskService.createTask returned c
createTaskDone(c, cu, t) ==
    IF ~c.ok THEN c
    ELSE Settled(c, updateTaskStats(c.wt, c.wu, cu, t), <<>>, "taskCreated", c.ret[1].id)

\* TaskController.createTask(taskData) over TaskService.createTask
createTask(wt, wu, cu, taskData, t) ==
    handleError(
        IF ~validateParams(<<taskData.title>>, <<>>)
        THEN CtlRes(wt, wu, FALSE, "Missing required parameters", <<>>, <<>>)
        ELSE IF cu = NoUser THEN CtlRes(wt, wu, FALSE, NullUser, <<>>, <<>>)
        ELSE createTaskDone(
                 serviceCreateTask(wt, wu,
                                   [taskData EXCEPT !.userId = cu.id,
                                                    !.assignedTo = IF @ = "" THEN cu.id ELSE @],
                                   t),
                 cu, t),
        "createTask", t)

\* updateTask after TaskService.updateTask returned u; task is what
\* getTaskById returned
updateTaskDone(u, task, cu, taskId, t) ==
    IF ~u.ok THEN [u EXCEPT !.pre = task]
    ELSE Settled(u, updateTaskStats(u.wt, u.wu, cu, t), task, "taskUpdated", taskId)

\* updateTask after TaskService.getTaskById returned f
updateTaskFound(f, wu, cu, taskId, updates, t) ==
    IF ~f.ok THEN CtlRes(f.w, wu, FALSE, f.err, <<>>, <<>>)
    ELSE IF ~canModifyTask(f.ret, cu)
    THEN CtlRes(f.w, wu, FALSE, "Permission denied: Cannot modify this task", <<>>, f.ret)
    ELSE updateTaskDone(serviceUpdateTask(f.w, wu, taskId, updates, t), f.ret, cu, taskId, t)

\* TaskController.updateTask(taskId, updates) over TaskService.getTaskById and
\* TaskService.updateTask
updateTask(wt, wu, cu, taskId, updates, t) ==
    handleError(
        IF ~validateParams(<<>>, <<taskId>>)
        THEN CtlRes(wt, wu, FALSE, "Missing required parameters", <<>>, <<>>)
        ELSE updateTaskFound(TaskFindById(wt, taskId, t), wu, cu, taskId, updates, t),
        "updateTask", t)

\* deleteTask after TaskService.deleteTask returned d
deleteTaskSettled(d, task, cu, taskId, t) ==
    IF ~d.ok \/ ~d.ret[1] THEN [d EXCEPT !.pre = task]
    ELSE Settled(d, updateTaskStats(d.wt, d.wu, cu, t), task, "taskDeleted", taskId)

\* deleteTask after TaskService.getTaskById returned f
deleteTaskFound(f, wu, cu, taskId, confirmed, t) ==
    IF ~f.ok THEN CtlRes(f.w, wu, FALSE, f.err, <<>>, <<>>)
    ELSE IF ~canModifyTask(f.ret, cu)
    THEN CtlRes(f.w, wu, FALSE, "Permission denied: Cannot delete this task", <<>>, f.ret)
    ELSE IF ~confirmed THEN CtlRes(f.w, wu, TRUE, "", <<FALSE>>, f.ret)
    ELSE deleteTaskSettled(serviceDeleteTask(f.w, wu, taskId), f.ret, cu, taskId, t)

\* TaskController.deleteTask(taskId); confirmed is the answer of the view's
\* confirmDeletion
deleteTask(wt, wu, cu, taskId, confirmed, t) ==
    handleError(
        IF ~validateParams(<<>>, <<taskId>>)
        THEN CtlRes(wt, wu, FALSE, "Missing required parameters", <<>>, <<>>)
        ELSE deleteTaskFound(TaskFindById(wt, taskId, t), wu, cu, taskId, confirmed, t),
        "deleteTask", t)

\* TaskController.toggleTaskCompletion(taskId)
toggleTaskCompletion(wt, wu, cu, taskId, t) ==
    handleError(
        LET f == TaskFindById(wt, taskId, t)
        IN  IF ~f.ok THEN CtlRes(f.w, wu, FALSE, f.err, <<>>, <<>>)
            ELSE IF f.ret = <<>> THEN CtlRes(f.w, wu, FALSE, "Task not found", <<>>, <<>>)
            ELSE updateTask(f.w, wu, cu, taskId, <<U("completed", ~f.ret[1].completed)>>, t),
        "toggleTaskCompletion", t)

\* TaskController.assignTask(taskId, userId)
assignTask(wt, wu, cu, taskId, userId, t) ==
    handleError(
        IF ~validateParams(<<>>, <<taskId, userId>>)
        THEN CtlRes(wt, wu, FALSE, "Missing required parameters", <<>>, <<>>)
        ELSE LET a == UserFindById(wu, userId, t)
             IN  IF ~a.ok THEN CtlRes(wt, a.w, FALSE, a.err, <<>>, <<>>)
                 ELSE IF a.ret = <<>>
                 THEN CtlRes(wt, a.w, FALSE, "Assignee not found", <<>>, <<>>)
                 ELSE updateTask(wt, a.w, cu, taskId, <<U("assignedTo", userId)>>, t),
        "assignTask", t)

\* TaskController.addTimeSpent(taskId, hours)
addTimeSpent(wt, wu, cu, taskId, hours, t) ==
    handleError(
        IF ~validateParams(<<hours>>, <<taskId>>)
        THEN CtlRes(wt, wu, FALSE, "Missing required parameters", <<>>, <<>>)
        ELSE LET f == TaskFindById(wt, taskId, t)
             IN  IF ~f.ok THEN CtlRes(f.w, wu, FALSE, f.err, <<>>, <<>>)
                 ELSE IF f.ret = <<>> THEN CtlRes(f.w, wu, FALSE, "Task not found", <<>>, <<>>)
                 ELSE IF ~canModifyTask(f.ret, cu)
                 THEN CtlRes(f.w, wu, FALSE, "Permission denied: Cannot modify this task",
                             <<>>, f.ret)
                 ELSE LET currentHours == IF f.ret[1].actualHours = Null THEN 0
                                          ELSE f.ret[1].actualHours[1]
                      IN  updateTask(f.w, wu, cu, taskId,
                                     <<U("actualHours", <<currentHours + hours[1]>>)>>, t),
        "addTimeSpent", t)

\* TaskController.setDueDate(taskId, dueDate)
controllerSetDueDate(wt, wu, cu, taskId, dueDate, t) ==
    handleError(
        IF ~validateParams(<<>>, <<taskId>>)
        THEN CtlRes(wt, wu, FALSE, "Missing required parameters", <<>>, <<>>)
        ELSE updateTask(wt, wu, cu, taskId, <<U("dueDate", dueDate)>>, t),
        "setDueDate", t)

\* Array.prototype.filter(t => t !== tag)
RECURSIVE FilterOut(_, _)
FilterOut(seq, x) ==
    IF seq = <<>> THEN <<>>
    ELSE IF Head(seq) = x THEN FilterOut(Tail(seq), x)
    ELSE <<Head(seq)>> \o FilterOut(Tail(seq), x)

\* TaskController.addTaskTag(taskId, tag)
addTaskTag(wt, wu, cu, taskId, tag, t) ==
    handleError(
        IF ~validateParams(<<tag>>, <<taskId>>)
        THEN CtlRes(wt, wu, FALSE, "Missing required parameters", <<>>, <<>>)
        ELSE LET f == TaskFindById(wt, taskId, t)
             IN  IF ~f.ok THEN CtlRes(f.w, wu, FALSE, f.err, <<>>, <<>>)
                 ELSE IF f.ret = <<>> THEN CtlRes(f.w, wu, FALSE, "Task not found", <<>>, <<>>)
                 ELSE IF ~Includes(f.ret[1].tags, toLowerCase(tag))
                 THEN updateTask(f.w, wu, cu, taskId,
                                 <<U("tags", Append(f.ret[1].tags, toLowerCase(tag)))>>, t)
                 ELSE CtlRes(f.w, wu, TRUE, "", f.ret, f.ret),
        "addTaskTag", t)

\* TaskController.removeTaskTag(taskId, tag)
removeTaskTag(wt, wu, cu, taskId, tag, t) ==
    handleError(
        IF ~validateParams(<<tag>>, <<taskId>>)
        THEN CtlRes(wt, wu, FALSE, "Missing required parameters", <<>>, <<>>)
        ELSE LET f == TaskFindById(wt, taskId, t)
             IN  IF ~f.ok THEN CtlRes(f.w, wu, FALSE, f.err, <<>>, <<>>)
                 ELSE IF f.ret = <<>> THEN CtlRes(f.w, wu, FALSE, "Task not found", <<>>, <<>>)
                 ELSE updateTask(f.w, wu, cu, taskId,
                                 <<U("tags", FilterOut(f.ret[1].tags, toLowerCase(tag)))>>, t),
        "removeTaskTag", t)

\* String.prototype.includes on character sequences
IncludesText(s, q) == \E i \in 0..(Len(s) - Len(q)) : SubSeq(s, i + 1, i + Len(q)) = q

\* the test of TaskService.searchTasks on one task: the lower-cased title or
\* one of the lower-cased tags includes the lower-cased query (the description
\* is '' in every task of the model, which includes no non-empty query)
SearchHit(e, query) ==
    \/ IncludesText(toLowerCase(e.title), toLowerCase(query))
    \/ \E i \in 1..Len(e.tags) : IncludesText(toLowerCase(e.tags[i]), toLowerCase(query))

\* TaskService.searchTasks(userId, query) after findAll({userId}) returned a
SearchHits(a, query) ==
    IF ~a.ok THEN a ELSE [a EXCEPT !.ret = SelectSeq(a.ret, LAMBDA e : SearchHit(e, query))]

\* searchTasks after the service's search returned q: the tasks are handed to
\* the view's displayTasks and 'tasksSearched' is notified
searchTasksFound(q, wu) ==
    IF ~q.ok THEN CtlRes(q.w, wu, FALSE, q.err, <<>>, <<>>)
    ELSE Emit([CtlRes(q.w, wu, TRUE, "", q.ret, <<>>) EXCEPT !.shown = <<q.ret>>],
              "tasksSearched", "")

\* the search itself, for a query that is not blank
searchTasksFor(wt, wu, cu, query, t) ==
    IF cu = NoUser THEN CtlRes(wt, wu, FALSE, NullUser, <<>>, <<>>)
    ELSE searchTasksFound(
             SearchHits(TaskFindAllWhere(wt, [NoOptions EXCEPT !.userId = cu.id], t),
                        trim(query)),
             wu)

searchTasks_AlwaysSearch(wt, wu, cu, cf, query, t) ==
    handleError(searchTasksFor(wt, wu, cu, query, t), "searchTasks", t)

\* TaskController.searchTasks(query); cf is currentFilter. A null, empty or
\* blank query is answered by filterTasks(this.currentFilter)
searchTasks(wt, wu, cu, cf, query, t) ==
    handleError(
        IF query = Null \/ trim(query) = <<>> THEN filterTasks(wt, wu, cu, cf, Null, t)
        ELSE searchTasksFor(wt, wu, cu, query, t),
        "searchTasks", t)

\* the event kinds of handleTaskViewEvent's switch
ViewEventTypes ==
    {"createTaskRequested", "updateTaskRequested", "deleteTaskRequested",
     "toggleCompletionRequested", "assignTaskRequested", "filterRequested",
     "searchRequested", "refreshRequested", "addTimeRequested", "setDueDateRequested",
     "addTagRequested", "removeTagRequested"}

\* `handleTaskViewEvent:${eventType}`, the operation handleError is given
ViewOperation(eventType) ==
    CASE eventType = "createTaskRequested" -> "handleTaskViewEvent:createTaskRequested"
      [] eventType = "updateTaskRequested" -> "handleTaskViewEvent:updateTaskRequested"
      [] eventType = "deleteTaskRequested" -> "handleTaskViewEvent:deleteTaskRequested"
      [] eventType = "toggleCompletionRequested" ->
            "handleTaskViewEvent:toggleCompletionRequested"
      [] eventType = "assignTaskRequested" -> "handleTaskViewEvent:assignTaskRequested"
      [] eventType = "filterRequested" -> "handleTaskViewEvent:filterRequested"
      [] eventType = "searchRequested" -> "handleTaskViewEvent:searchRequested"
      [] eventType = "refreshRequested" -> "handleTaskViewEvent:refreshRequested"
      [] eventType = "addTimeRequested" -> "handleTaskViewEvent:addTimeRequested"
      [] eventType = "setDueDateRequested" -> "handleTaskViewEvent:setDueDateRequested"
      [] eventType = "addTagRequested" -> "handleTaskViewEvent:addTagRequested"
      [] eventType = "removeTagRequested" -> "handleTaskViewEvent:removeTagRequested"
      [] OTHER -> "handleTaskViewEvent"

handleTaskViewEventCase_DefaultThrows(wt, wu, cu, cf, e, t) ==
    CtlRes(wt, wu, FALSE, "Unknown event type", <<>>, <<>>)

\* the switch of handleTaskViewEvent on an event e = [type, data]; confirmed
\* is what the user answers should deleteTask ask; no case matches an event
\* type outside the table and there is no default
handleTaskViewEventCase(wt, wu, cu, cf, e, t) ==
    CASE e.type = "createTaskRequested" -> createTask(wt, wu, cu, e.data, t)
      [] e.type = "updateTaskRequested" ->
            updateTask(wt, wu, cu, e.data.taskId, e.data.updates, t)
      [] e.type = "deleteTaskRequested" ->
            deleteTask(wt, wu, cu, e.data.taskId, e.confirmed, t)
      [] e.type = "toggleCompletionRequested" ->
            toggleTaskCompletion(wt, wu, cu, e.data.taskId, t)
      [] e.type = "assignTaskRequested" ->
            assignTask(wt, wu, cu, e.data.taskId, e.data.userId, t)
      [] e.type = "filterRequested" ->
            filterTasks(wt, wu, cu, e.data.filterType, e.data.filterValue, t)
      [] e.type = "searchRequested" -> searchTasks(wt, wu, cu, cf, e.data.query, t)
      [] e.type = "refreshRequested" -> refreshTasks(wt, wu, cu, cf, t)
      [] e.type = "addTimeRequested" ->
            addTimeSpent(wt, wu, cu, e.data.taskId, e.data.hours, t)
      [] e.type = "setDueDateRequested" ->
            controllerSetDueDate(wt, wu, cu, e.data.taskId, e.data.dueDate, t)
      [] e.type = "addTagRequested" -> addTaskTag(wt, wu, cu, e.data.taskId, e.data.tag, t)
      [] e.type = "removeTagRequested" ->
            removeTaskTag(wt, wu, cu, e.data.taskId, e.data.tag, t)
      [] OTHER -> CtlRes(wt, wu, TRUE, "", <<>>, <<>>)

\* TaskController.handleTaskViewEvent(eventType, data): what the operation
\* returns is dropped; what it throws goes through handleError once more
handleTaskViewEvent(wt, wu, cu, cf, e, t) ==
    handleError([handleTaskViewEventCase(wt, wu, cu, cf, e, t) EXCEPT !.ret = <<>>],
                ViewOperation(e.type), t)

\* TaskController.handleTaskServiceEvent: when the controller is among the
\* service's listeners, a task event of the call starts refreshTasks(); the
\* refresh is not awaited and completes after the call that caused it
HeardTaskEvent(r, sl) ==
    /\ Includes(sl, "ctl")
    /\ \E i \in 1..Len(r.log) : r.log[i].src = "service" /\ r.log[i].type \in TaskEvents

----------------------------------------------------------------------------
(* Inputs *)

BaseOptions ==
    [id |-> "t1", title |-> <<"A">>, userId |-> "u1", priority |-> "", completed |-> FALSE,
     assignedTo |-> "", category |-> Null, tags |-> <<>>, dueDate |-> Null,
     estimatedHours |-> Null, actualHours |-> Null, status |-> "",
     createdAt |-> Null, updatedAt |-> Null, completedAt |-> Null, dependencies |-> <<>>]

RichOptions ==
    [BaseOptions EXCEPT !.id = "t2", !.title = <<" ", "B">>, !.userId = "u2",
                        !.priority = "high", !.category = <<"W">>,
                        !.tags = << <<"A">>, <<"a", " ">> >>, !.dueDate = <<"str", 3>>,
                        !.estimatedHours = <<2>>, !.actualHours = <<1>>,
                        !.assignedTo = "u1", !.dependencies = <<"t1">>]

\* what callers hand to TaskService.createTask / new Task; id "" asks for a
\* generated id
CreateOptions ==
    << BaseOptions,
       [BaseOptions EXCEPT !.id = "t2"],
       [BaseOptions EXCEPT !.id = ""],
       RichOptions,
       [RichOptions EXCEPT !.id = "t1"],
       [BaseOptions EXCEPT !.id = "t2", !.completed = TRUE],
       [BaseOptions EXCEPT !.id = "t2", !.status = "completed", !.completed = TRUE],
       [BaseOptions EXCEPT !.id = "t2", !.dueDate = <<"garbage">>] >>

\* the updates objects handed to update(id, updates)
UpdateInputs ==
    << << U("title", <<"B">>) >>,
       << U("title", <<" ">>) >>,
       << U("category", <<"w">>) >>,
       << U("dueDate", <<"str", 3>>) >>,
       << U("dueDate", <<"garbage">>) >>,
       << U("actualHours", <<2>>) >>,
       << U("status", "completed") >>,
       << U("status", "in-progress") >>,
       << U("completed", TRUE) >>,
       << U("completed", FALSE) >>,
       << U("id", "t2") >>,
       << U("assignedTo", "u2") >>,
       << U("tags", << <<"A">> >>) >>,
       << U("foo", "x") >>,
       << U("title", <<"B">>), U("priority", "bogus") >> >>

UserInputs ==
    << [id |-> "u1", username |-> <<"a">>, email |-> <<"a", "@">>, role |-> "user"],
       [id |-> "u2", username |-> <<"b">>, email |-> <<"b", "@">>, role |-> "user"],
       [id |-> "u1", username |-> <<"b">>, email |-> <<"b", "@">>, role |-> "admin"],
       [id |-> "u2", username |-> <<"A">>, email |-> <<"B", "@">>, role |-> "user"],
       [id |-> "u2", username |-> <<"b">>, email |-> <<"b">>, role |-> "user"] >>

UserUpdateInputs ==
    << U("role", "admin"), U("username", <<"b">>), U("email", <<"b", "@">>) >>

\* rows a previous session left in the persistent store: what create and toJSON
\* wrote at time 0, before this session's clock readings
StoredTask(o) == toJSON(TaskNew(o.title, o.userId, o, GenTaskId, 0).t)

InitTasks == { <<>>, <<StoredTask(BaseOptions)>>,
               <<StoredTask(BaseOptions), StoredTask(RichOptions)>> }

StoredUser(o) == userToJSON(UserNew(o))

InitUsers == { <<>>, <<StoredUser(UserInputs[1])>>,
               <<StoredUser(UserInputs[1]), StoredUser(UserInputs[2])>> }

\* updates objects naming the fields that have no setter
FieldUpdateInputs ==
    << << U("id", "t2") >>,
       << U("userId", "u2") >>,
       << U("userId", "") >>,
       << U("createdAt", Date(5)) >>,
       << U("createdAt", <<"str", 5>>) >>,
       << U("dependencies", <<"t1">>) >>,
       << U("tags", << <<"A">>, <<"a">>, <<"a">> >>) >>,
       << U("completedAt", Date(5)) >> >>

FieldTasks ==
    { <<StoredTask(BaseOptions)>>,
      <<StoredTask(BaseOptions), StoredTask([BaseOptions EXCEPT !.id = "t2"])>> }

\* updates objects in which a mutator rejects a field, alone or after fields
\* that were accepted, and two that are accepted whole
RejectingUpdateInputs ==
    << << U("title", <<" ">>) >>,
       << U("category", <<"w">>), U("priority", "bogus") >>,
       << U("assignedTo", "u2"), U("status", "done") >>,
       << U("title", <<"B">>), U("actualHours", <<-1>>) >>,
       << U("completed", TRUE), U("dueDate", <<"garbage">>) >>,
       << U("title", <<"B">>) >>,
       << U("estimatedHours", <<2>>), U("priority", "urgent") >> >>

\* what callers hand to TaskService.createTask and TaskService.updateTask
SvcCreateInputs ==
    << BaseOptions,
       [BaseOptions EXCEPT !.id = "t2", !.userId = "u2"],
       [BaseOptions EXCEPT !.id = "", !.title = <<" ">>],
       [BaseOptions EXCEPT !.id = "t2", !.dueDate = <<"garbage">>] >>

SvcUpdateInputs ==
    << << U("title", <<"B">>) >>,
       << U("title", <<" ">>) >>,
       << U("status", "completed") >> >>

SvcTasks == { <<>>, <<StoredTask(BaseOptions)>> }

SvcListeners == { <<>>, <<"log">>, <<"bad", "log">> }

\* what the controller's callers (the view's events) hand over
TaggedOptions == [BaseOptions EXCEPT !.tags = << <<"a">> >>]

CtlTasks == { <<StoredTask(TaggedOptions), StoredTask(RichOptions)>> }

CtlUsers ==
    { <<StoredUser(UserInputs[1]), StoredUser(UserInputs[2])>>,
      <<StoredUser(UserInputs[1]), StoredUser([UserInputs[2] EXCEPT !.role = "admin"])>>,
      <<StoredUser(UserInputs[2])>> }

CtlUpdateInputs ==
    << << U("title", <<"B">>) >>,
       << U("assignedTo", "u2") >>,
       << U("status", "completed") >> >>

CtlTags == << <<"A">>, <<"b">>, Null >>

CtlHours == << <<1>>, Null >>

CtlDueDates == << <<"str", 3>>, <<"garbage">> >>

\* the task data of the view's form: the controller fills in the user
CtlCreateInputs ==
    << [BaseOptions EXCEPT !.id = "", !.userId = "", !.priority = "high"],
       [BaseOptions EXCEPT !.id = "", !.userId = "", !.title = Null],
       [BaseOptions EXCEPT !.id = "", !.userId = "", !.dueDate = <<"garbage">>] >>

\* filter requests: the type and the value (Null, or <<value>>)
FilterInputs ==
    << [kind |-> "all", value |-> Null],
       [kind |-> "pending", value |-> Null],
       [kind |-> "completed", value |-> Null],
       [kind |-> "overdue", value |-> Null],
       [kind |-> "priority", value |-> <<"high">>],
       [kind |-> "category", value |-> << <<"w">> >>],
       [kind |-> "assigned", value |-> Null],
       [kind |-> "tag", value |-> << <<"a">> >>] >>

\* the queries typed into the view's search box
SearchInputs == << Null, <<" ">>, <<"A">>, <<"b">> >>

\* events of the view: of a kind the controller's switch has no case for, and
\* of kinds it has
ViewEvents ==
    << [type |-> "sortRequested", data |-> [sortBy |-> "priority"], confirmed |-> TRUE],
       [type |-> "taskSelected", data |-> [taskId |-> "t1"], confirmed |-> TRUE],
       [type |-> "filterRequested", data |-> [filterType |-> "assigned", filterValue |-> Null],
        confirmed |-> TRUE],
       [type |-> "searchRequested", data |-> [query |-> <<"b">>], confirmed |-> TRUE],
       [type |-> "refreshRequested", data |-> Null, confirmed |-> TRUE],
       [type |-> "toggleCompletionRequested", data |-> [taskId |-> "t1"], confirmed |-> TRUE],
       [type |-> "deleteTaskRequested", data |-> [taskId |-> "t2"], confirmed |-> FALSE],
       [type |-> "createTaskRequested", data |-> CtlCreateInputs[2], confirmed |-> TRUE] >>

\* rows of tasks whose due date has passed (0) and has not (3) when the
\* session starts
OverdueOptions == [TaggedOptions EXCEPT !.dueDate = <<"str", 0>>]

OverdueTasks ==
    { <<StoredTask(OverdueOptions)>>,
      <<StoredTask(OverdueOptions), StoredTask(RichOptions)>> }

\* the collection the queries run over: priorities low, urgent and medium,
\* titles that differ in case, two owners, one task completed
QueryRows ==
    << StoredTask([BaseOptions EXCEPT !.title = <<"B">>, !.priority = "low"]),
       StoredTask([RichOptions EXCEPT !.title = <<"a">>, !.priority = "urgent"]),
       StoredTask([BaseOptions EXCEPT !.id = GenTaskId, !.title = <<"A">>, !.priority = "medium",
                                      !.completed = TRUE, !.dueDate = <<"str", 1>>,
                                      !.assignedTo = "u2"]) >>

QueryTasks ==
    { QueryRows, <<QueryRows[3], QueryRows[1]>>, <<QueryRows[2], QueryRows[1], QueryRows[3]>> }

\* the options handed to TaskRepository.findAll
QueryInputs ==
    { NoQuery,
      [NoQuery EXCEPT !.userId = "u1"],
      [NoQuery EXCEPT !.completed = <<FALSE>>],
      [NoQuery EXCEPT !.completed = <<TRUE>>],
      [NoQuery EXCEPT !.priority = "low"],
      [NoQuery EXCEPT !.category = general],
      [NoQuery EXCEPT !.assignedTo = "u1"],
      [NoQuery EXCEPT !.userId = "u1", !.completed = <<FALSE>>],
      [NoQuery EXCEPT !.userId = "u2", !.priority = "urgent", !.assignedTo = "u1"],
      [NoQuery EXCEPT !.userId = "u1", !.priority = "urgent"],
      [NoQuery EXCEPT !.sortBy = "priority"],
      [NoQuery EXCEPT !.sortBy = "priority", !.sortOrder = "desc"],
      [NoQuery EXCEPT !.sortBy = "title", !.sortOrder = "asc"],
      [NoQuery EXCEPT !.sortBy = "title", !.sortOrder = "desc"],
      [NoQuery EXCEPT !.sortBy = "dueDate"],
      [NoQuery EXCEPT !.userId = "u1", !.sortBy = "priority", !.sortOrder = "desc"],
      [NoQuery EXCEPT !.limit = <<1>>],
      [NoQuery EXCEPT !.limit = <<2>>, !.offset = <<1>>],
      [NoQuery EXCEPT !.limit = <<1>>, !.offset = <<0>>],
      [NoQuery EXCEPT !.offset = <<1>>],
      [NoQuery EXCEPT !.offset = <<5>>, !.limit = <<1>>],
      [NoQuery EXCEPT !.limit = <<0>>],
      [NoQuery EXCEPT !.limit = <<0>>, !.offset = <<1>>],
      [NoQuery EXCEPT !.limit = <<0>>, !.offset = <<0>>],
      [NoQuery EXCEPT !.sortBy = "title", !.limit = <<2>>, !.offset = <<1>>] }

\* the options handed to UserRepository.findAll
UserQueryInputs ==
    { NoQuery,
      [NoQuery EXCEPT !.role = "user"],
      [NoQuery EXCEPT !.sortBy = "username", !.sortOrder = "desc"],
      [NoQuery EXCEPT !.limit = <<1>>],
      [NoQuery EXCEPT !.limit = <<1>>, !.offset = <<1>>],
      [NoQuery EXCEPT !.limit = <<0>>],
      [NoQuery EXCEPT !.limit = <<0>>, !.offset = <<1>>] }

\* the events the view sends while earlier ones are still being handled
AsyncEvents ==
    << [type |-> "addTimeRequested", data |-> [taskId |-> "t1", hours |-> <<1>>],
        confirmed |-> TRUE],
       [type |-> "addTimeRequested", data |-> [taskId |-> "t1", hours |-> <<2>>],
        confirmed |-> TRUE],
       [type |-> "createTaskRequested", data |-> CtlCreateInputs[1], confirmed |-> TRUE] >>

\* the collection the handlers work on: one task of user 'u1'
AsyncTasks == { <<StoredTask(TaggedOptions)>> }

AsyncUsers == { <<StoredUser(UserInputs[1]), StoredUser(UserInputs[2])>> }

\* the updates a second repository instance makes
OtherUpdates == << << U("title", <<"B">>) >>, << U("status", "in-progress") >> >>

OtherKinds == {"other.update", "other.delete"}

\* the listeners the application registers: the controller on the service,
\* and a logger on each
AppServiceListeners == <<"ctl", "log">>

AppControllerListeners == <<"log">>

----------------------------------------------------------------------------
(* State machine *)

NoPrev == [kind |-> "none", id |-> "", entity |-> <<>>, before |-> <<>>, upd |-> <<>>, at |-> 0]

NoAsk == [kind |-> "", value |-> Null, ok |-> FALSE]

NoRefresh == [ran |-> FALSE, ok |-> TRUE, err |-> "", log |-> <<>>]

\* log: the events the call emitted, in order; calls: the listener calls
\* made for them; thrown: a listener's exception left notifyListeners;
\* refresh: the refreshTasks the controller started on a service event;
\* stats: the statistics the call itself last handed to displayStats
Last(op, id, upd, r) ==
    [op |-> op, id |-> id, upd |-> upd, ok |-> r.ok, err |-> r.err, ret |-> r.ret,
     loads |-> r.w.loads, saves |-> r.w.saves, age |-> r.age, pre |-> r.pre,
     log |-> <<>>, calls |-> <<>>, thrown |-> FALSE, refresh |-> NoRefresh, stats |-> <<>>]

NoListeners == svcListeners = <<>> /\ ctlListeners = <<>>

InitCommon ==
    /\ taskCache = [i \in AllTaskIds |-> NoEntry]
    /\ userCache = [i \in UserIds |-> NoEntry]
    /\ now = 1
    /\ currentUser = NoUser
    /\ currentFilter = "all"
    /\ displayed = <<>>
    /\ asked = NoAsk
    /\ last = Last("init", "", <<>>, Res(World(<<>>, <<>>), TRUE, "", <<>>))
    /\ prev = NoPrev
    /\ flight = <<>>
    /\ steps = 0

\* the repositories right after construction, over what the store holds
Init ==
    /\ tasks \in InitTasks
    /\ users = <<>>
    /\ InitCommon
    /\ NoListeners

InitUser ==
    /\ tasks = <<>>
    /\ users \in InitUsers
    /\ InitCommon
    /\ NoListeners

Step == steps < MaxSteps /\ steps' = steps + 1

\* the clock advances between two calls: by a minute, by the lifetime of a
\* task cache entry, or by a minute more than that
Tick ==
    /\ Step
    /\ \E d \in {1, TaskCacheExpiry, TaskCacheExpiry + 1} :
          now + d <= MaxTime /\ now' = now + d
    /\ last' = Last("tick", "", <<>>, Res(World(<<>>, <<>>), TRUE, "", <<>>))
    /\ UNCHANGED <<front, tasks, users, taskCache, userCache, currentUser, prev>>

\* the same around the lifetime of a user cache entry
UTick ==
    /\ Step
    /\ \E d \in {1, UserCacheExpiry, UserCacheExpiry + 1} :
          now + d <= MaxTime /\ now' = now + d
    /\ last' = Last("tick", "", <<>>, Res(World(<<>>, <<>>), TRUE, "", <<>>))
    /\ UNCHANGED <<front, tasks, users, taskCache, userCache, currentUser, prev>>

\* TaskRepository.create(new Task(...)) with an explicit or a generated id
TCreate ==
    /\ Step
    /\ \E k \in 1..Len(CreateOptions) :
       \E c \in {TaskNew(CreateOptions[k].title, CreateOptions[k].userId,
                         CreateOptions[k], GenTaskId, now)} :
       \E r \in {TaskCreate(World(tasks, taskCache), c.t, now)} :
             /\ c.ok
             /\ CreateOptions[k].id = "" => ~HasDuplicate(tasks, GenTaskId)
             /\ r.ok => Len(tasks) < MaxTasks
             /\ tasks' = r.w.rows
             /\ taskCache' = r.w.cache
             /\ last' = Last("create", c.t.id, <<>>, r)
             /\ prev' = IF r.ok
                        THEN [NoPrev EXCEPT !.kind = "create", !.id = c.t.id,
                                            !.entity = <<c.t>>, !.at = now]
                        ELSE prev
    /\ UNCHANGED <<front, users, userCache, now, currentUser>>

\* TaskRepository.findById(id)
TFindById ==
    /\ Step
    /\ \E id \in AllTaskIds :
       \E r \in {TaskFindById(World(tasks, taskCache), id, now)} :
             /\ tasks' = r.w.rows
             /\ taskCache' = r.w.cache
             /\ last' = Last("findById", id, <<>>, r)
    /\ UNCHANGED <<front, users, userCache, now, currentUser, prev>>

\* TaskRepository.findAll()
TFindAll ==
    /\ Step
    /\ \E r \in {TaskFindAll(World(tasks, taskCache), now)} :
           /\ tasks' = r.w.rows
           /\ taskCache' = r.w.cache
           /\ last' = Last("findAll", "", <<>>, r)
    /\ UNCHANGED <<front, users, userCache, now, currentUser, prev>>

\* TaskRepository.update(id, updates)
TUpdate ==
    /\ Step
    /\ \E id \in TaskIds, k \in 1..Len(UpdateInputs) :
       \E r \in {TaskUpdate(World(tasks, taskCache), id, UpdateInputs[k], now)} :
             /\ tasks' = r.w.rows
             /\ taskCache' = r.w.cache
             /\ last' = Last("update", id, UpdateInputs[k], r)
             /\ prev' = IF r.ok /\ r.ret # <<>>
                        THEN [kind |-> "update", id |-> id, entity |-> r.ret,
                              before |-> r.pre, upd |-> UpdateInputs[k], at |-> now]
                        ELSE prev
    /\ UNCHANGED <<front, users, userCache, now, currentUser>>

\* TaskRepository.update(id, updates) on the fields without a setter
TUpdateField ==
    /\ Step
    /\ \E id \in TaskIds, k \in 1..Len(FieldUpdateInputs) :
       \E r \in {TaskUpdate(World(tasks, taskCache), id, FieldUpdateInputs[k], now)} :
             /\ tasks' = r.w.rows
             /\ taskCache' = r.w.cache
             /\ last' = Last("update", id, FieldUpdateInputs[k], r)
             /\ prev' = IF r.ok /\ r.ret # <<>>
                        THEN [kind |-> "update", id |-> id, entity |-> r.ret,
                              before |-> r.pre, upd |-> FieldUpdateInputs[k], at |-> now]
                        ELSE prev
    /\ UNCHANGED <<front, users, userCache, now, currentUser>>

\* TaskRepository.update(id, updates) with several fields at once
TUpdateFields ==
    /\ Step
    /\ \E id \in TaskIds, k \in 1..Len(RejectingUpdateInputs) :
       \E r \in {TaskUpdate(World(tasks, taskCache), id, RejectingUpdateInputs[k], now)} :
             /\ tasks' = r.w.rows
             /\ taskCache' = r.w.cache
             /\ last' = Last("update", id, RejectingUpdateInputs[k], r)
             /\ prev' = IF r.ok /\ r.ret # <<>>
                        THEN [kind |-> "update", id |-> id, entity |-> r.ret,
                              before |-> r.pre, upd |-> RejectingUpdateInputs[k], at |-> now]
                        ELSE prev
    /\ UNCHANGED <<front, users, userCache, now, currentUser>>

\* TaskRepository.delete(id)
TDelete ==
    /\ Step
    /\ \E id \in TaskIds :
       \E r \in {TaskDelete(World(tasks, taskCache), id)} :
             /\ tasks' = r.w.rows
             /\ taskCache' = r.w.cache
             /\ last' = Last("delete", id, <<>>, r)
             /\ prev' = IF r.ret = <<TRUE>>
                        THEN [NoPrev EXCEPT !.kind = "delete", !.id = id, !.at = now]
                        ELSE prev
    /\ UNCHANGED <<front, users, userCache, now, currentUser>>

\* UserRepository.create(new User(...))
UCreate ==
    /\ Step
    /\ \E k \in 1..Len(UserInputs) :
       \E r \in {UserCreate(World(users, userCache), UserNew(UserInputs[k]), now)} :
             /\ r.ok => Len(users) < MaxUsers
             /\ users' = r.w.rows
             /\ userCache' = r.w.cache
             /\ last' = Last("user.create", UserInputs[k].id, <<>>, r)
    /\ UNCHANGED <<front, tasks, taskCache, now, currentUser, prev>>

\* UserRepository.findById(id)
UFindById ==
    /\ Step
    /\ \E id \in UserIds :
       \E r \in {UserFindById(World(users, userCache), id, now)} :
             /\ users' = r.w.rows
             /\ userCache' = r.w.cache
             /\ last' = Last("user.findById", id, <<>>, r)
    /\ UNCHANGED <<front, tasks, taskCache, now, currentUser, prev>>

\* UserRepository.update(id, updates)
UUpdate ==
    /\ Step
    /\ \E id \in UserIds, k \in 1..Len(UserUpdateInputs) :
       \E r \in {UserUpdate(World(users, userCache), id, UserUpdateInputs[k], now)} :
             /\ users' = r.w.rows
             /\ userCache' = r.w.cache
             /\ last' = Last("user.update", id, <<UserUpdateInputs[k]>>, r)
    /\ UNCHANGED <<front, tasks, taskCache, now, currentUser, prev>>

\* UserRepository.delete(id)
UDelete ==
    /\ Step
    /\ \E id \in UserIds :
       \E r \in {UserDelete(World(users, userCache), id)} :
             /\ users' = r.w.rows
             /\ userCache' = r.w.cache
             /\ last' = Last("user.delete", id, <<>>, r)
    /\ UNCHANGED <<front, tasks, taskCache, now, currentUser, prev>>

\* a TaskService call: its events are handed to the service's listeners
SvcLast(op, id, args, r) ==
    LET n == NotifyAll(r.log, svcListeners, ctlListeners)
    IN  [op |-> op, id |-> id, upd |-> args, ok |-> r.ok, err |-> r.err, ret |-> r.ret,
         loads |-> r.wt.loads, saves |-> r.wt.saves, age |-> -1, pre |-> r.pre,
         log |-> r.log, calls |-> n.calls, thrown |-> n.thrown, refresh |-> NoRefresh,
         stats |-> <<>>]

SvcEffect(op, id, args, r) ==
    /\ tasks' = r.wt.rows
    /\ taskCache' = r.wt.cache
    /\ users' = r.wu.rows
    /\ userCache' = r.wu.cache
    /\ last' = SvcLast(op, id, args, r)
    /\ UNCHANGED <<now, currentUser, currentFilter, displayed, svcListeners, ctlListeners,
                   asked, prev, flight>>

\* TaskService.addListener(listener)
SAddListener ==
    /\ Step
    /\ \E l \in ListenerPool : svcListeners' = addListener(svcListeners, l)
    /\ last' = Last("service.addListener", "", <<>>, Res(World(<<>>, <<>>), TRUE, "", <<>>))
    /\ UNCHANGED <<tasks, users, taskCache, userCache, now, currentUser, currentFilter,
                   displayed, ctlListeners, asked, prev, flight>>

\* TaskService.removeListener(listener)
SRemoveListener ==
    /\ Step
    /\ \E l \in ListenerPool : svcListeners' = removeListener(svcListeners, l)
    /\ last' = Last("service.removeListener", "", <<>>, Res(World(<<>>, <<>>), TRUE, "", <<>>))
    /\ UNCHANGED <<tasks, users, taskCache, userCache, now, currentUser, currentFilter,
                   displayed, ctlListeners, asked, prev, flight>>

\* TaskService.createTask(taskData)
SCreateTask ==
    /\ Step
    /\ \E k \in 1..Len(SvcCreateInputs) :
       \E r \in {serviceCreateTask(World(tasks, taskCache), World(users, userCache),
                                   SvcCreateInputs[k], now)} :
             /\ SvcCreateInputs[k].id = "" => ~HasDuplicate(tasks, GenTaskId)
             /\ r.ok => Len(tasks) < MaxTasks
             /\ SvcEffect("service.createTask", SvcCreateInputs[k].id, SvcCreateInputs[k], r)

\* TaskService.updateTask(taskId, updates)
SUpdateTask ==
    /\ Step
    /\ \E id \in TaskIds, k \in 1..Len(SvcUpdateInputs) :
       \E r \in {serviceUpdateTask(World(tasks, taskCache), World(users, userCache),
                                   id, SvcUpdateInputs[k], now)} :
             SvcEffect("service.updateTask", id, SvcUpdateInputs[k], r)

\* TaskService.deleteTask(taskId)
SDeleteTask ==
    /\ Step
    /\ \E id \in TaskIds :
       \E r \in {serviceDeleteTask(World(tasks, taskCache), World(users, userCache), id)} :
             SvcEffect("service.deleteTask", id, <<>>, r)

CtlLast(op, id, args, r) ==
    [op |-> op, id |-> id, upd |-> args, ok |-> r.ok, err |-> r.err, ret |-> r.ret,
     loads |-> r.wt.loads, saves |-> r.wt.saves, age |-> -1, pre |-> r.pre,
     log |-> r.log, calls |-> <<>>, thrown |-> FALSE, refresh |-> NoRefresh,
     stats |-> r.stats]

\* what a controller call with outcome r leaves behind: in the store and the
\* caches, in currentFilter and in the view, and, when the call made the
\* service emit a task event, what the refreshTasks() started by
\* handleTaskServiceEvent leaves behind after it; cu is the current user the
\* call leaves
CtlEffect(op, id, args, r, cu) ==
    \E cf \in {IF r.filter = <<>> THEN currentFilter ELSE r.filter[1]} :
    \E heard \in {HeardTaskEvent(r, svcListeners)} :
    \E x \in {IF heard THEN refreshTasks(r.wt, r.wu, cu, cf, now)
               ELSE CtlRes(r.wt, r.wu, TRUE, "", <<>>, <<>>)} :
    \E n \in {NotifyAll(r.log \o x.log, svcListeners, ctlListeners)} :
        /\ tasks' = x.wt.rows
        /\ taskCache' = x.wt.cache
        /\ users' = x.wu.rows
        /\ userCache' = x.wu.cache
        /\ currentFilter' = IF x.filter # <<>> THEN x.filter[1] ELSE cf
        /\ displayed' = IF x.shown # <<>> THEN x.shown[1]
                        ELSE IF r.shown # <<>> THEN r.shown[1]
                        ELSE displayed
        /\ last' = [CtlLast(op, id, args, r)
                      EXCEPT !.calls = n.calls, !.thrown = n.thrown,
                             !.refresh = IF heard
                                         THEN [ran |-> TRUE, ok |-> x.ok, err |-> x.err,
                                               log |-> x.log]
                                         ELSE NoRefresh]
        /\ UNCHANGED <<svcListeners, ctlListeners, flight>>

\* TaskController.initialize(userId): currentUser is assigned what the lookup
\* returned, null included, before the check
CInitialize ==
    /\ Step
    /\ \E userId \in UserIds :
       \E r \in {initialize(World(tasks, taskCache), World(users, userCache), currentFilter,
                           userId, now)} :
       \E cu \in {IF r.ret = <<>> THEN NoUser ELSE r.ret[1]} :
             /\ CtlEffect("initialize", userId, <<>>, r, cu)
             /\ currentUser' = cu
    /\ UNCHANGED <<asked, now, prev>>

CToggleTaskCompletion ==
    /\ Step
    /\ \E id \in TaskIds :
       \E r \in {toggleTaskCompletion(World(tasks, taskCache), World(users, userCache),
                                      currentUser, id, now)} :
             CtlEffect("toggleTaskCompletion", id, <<>>, r, currentUser)
    /\ UNCHANGED <<asked, now, currentUser, prev>>

CUpdateTask ==
    /\ Step
    /\ \E id \in TaskIds, k \in 1..Len(CtlUpdateInputs) :
       \E r \in {updateTask(World(tasks, taskCache), World(users, userCache),
                            currentUser, id, CtlUpdateInputs[k], now)} :
             CtlEffect("updateTask", id, CtlUpdateInputs[k], r, currentUser)
    /\ UNCHANGED <<asked, now, currentUser, prev>>

CDeleteTask ==
    /\ Step
    /\ \E id \in TaskIds, confirmed \in BOOLEAN :
       \E r \in {deleteTask(World(tasks, taskCache), World(users, userCache),
                            currentUser, id, confirmed, now)} :
             CtlEffect("deleteTask", id, <<confirmed>>, r, currentUser)
    /\ UNCHANGED <<asked, now, currentUser, prev>>

CAssignTask ==
    /\ Step
    /\ \E id \in TaskIds, userId \in UserIds :
       \E r \in {assignTask(World(tasks, taskCache), World(users, userCache),
                            currentUser, id, userId, now)} :
             CtlEffect("assignTask", id, <<userId>>, r, currentUser)
    /\ UNCHANGED <<asked, now, currentUser, prev>>

CAddTimeSpent ==
    /\ Step
    /\ \E id \in TaskIds, k \in 1..Len(CtlHours) :
       \E r \in {addTimeSpent(World(tasks, taskCache), World(users, userCache),
                              currentUser, id, CtlHours[k], now)} :
             CtlEffect("addTimeSpent", id, <<CtlHours[k]>>, r, currentUser)
    /\ UNCHANGED <<asked, now, currentUser, prev>>

CSetDueDate ==
    /\ Step
    /\ \E id \in TaskIds, k \in 1..Len(CtlDueDates) :
       \E r \in {controllerSetDueDate(World(tasks, taskCache), World(users, userCache),
                                      currentUser, id, CtlDueDates[k], now)} :
             CtlEffect("setDueDate", id, <<CtlDueDates[k]>>, r, currentUser)
    /\ UNCHANGED <<asked, now, currentUser, prev>>

CAddTaskTag ==
    /\ Step
    /\ \E id \in TaskIds, k \in 1..Len(CtlTags) :
       \E r \in {addTaskTag(World(tasks, taskCache), World(users, userCache),
                            currentUser, id, CtlTags[k], now)} :
             CtlEffect("addTaskTag", id, <<CtlTags[k]>>, r, currentUser)
    /\ UNCHANGED <<asked, now, currentUser, prev>>

CRemoveTaskTag ==
    /\ Step
    /\ \E id \in TaskIds, k \in 1..Len(CtlTags) :
       \E r \in {removeTaskTag(World(tasks, taskCache), World(users, userCache),
                               currentUser, id, CtlTags[k], now)} :
             CtlEffect("removeTaskTag", id, <<CtlTags[k]>>, r, currentUser)
    /\ UNCHANGED <<asked, now, currentUser, prev>>

\* TaskController.createTask(taskData)
CCreateTask ==
    /\ Step
    /\ \E k \in 1..Len(CtlCreateInputs) :
       \E r \in {createTask(World(tasks, taskCache), World(users, userCache),
                            currentUser, CtlCreateInputs[k], now)} :
             /\ CtlCreateInputs[k].id = "" => ~HasDuplicate(tasks, GenTaskId)
             /\ r.ok => Len(tasks) < MaxTasks + 1
             /\ CtlEffect("createTask", CtlCreateInputs[k].id, CtlCreateInputs[k], r,
                          currentUser)
    /\ UNCHANGED <<asked, now, currentUser, prev>>

\* TaskController.filterTasks(filterType, filterValue), asked for by a caller
CFilterTasks ==
    /\ Step
    /\ \E k \in 1..Len(FilterInputs) :
       \E r \in {filterTasks(World(tasks, taskCache), World(users, userCache), currentUser,
                             FilterInputs[k].kind, FilterInputs[k].value, now)} :
             /\ CtlEffect("filterTasks", "", FilterInputs[k], r, currentUser)
             /\ asked' = [kind |-> FilterInputs[k].kind, value |-> FilterInputs[k].value,
                          ok |-> r.ok]
    /\ UNCHANGED <<now, currentUser, prev>>

\* TaskController.refreshTasks(), asked for by a caller
CRefreshTasks ==
    /\ Step
    /\ \E r \in {refreshTasks(World(tasks, taskCache), World(users, userCache), currentUser,
                              currentFilter, now)} :
             CtlEffect("refreshTasks", "", <<>>, r, currentUser)
    /\ UNCHANGED <<asked, now, currentUser, prev>>

\* TaskController.searchTasks(query), asked for by a caller
CSearchTasks ==
    /\ Step
    /\ \E k \in 1..Len(SearchInputs) :
       \E r \in {searchTasks(World(tasks, taskCache), World(users, userCache), currentUser,
                             currentFilter, SearchInputs[k], now)} :
             CtlEffect("searchTasks", "", SearchInputs[k], r, currentUser)
    /\ UNCHANGED <<asked, now, currentUser, prev>>

\* TaskController.handleTaskViewEvent(eventType, data), called by the view
CHandleTaskViewEvent ==
    /\ Step
    /\ \E k \in 1..Len(ViewEvents) :
       \E r \in {handleTaskViewEvent(World(tasks, taskCache), World(users, userCache),
                                     currentUser, currentFilter, ViewEvents[k], now)} :
             /\ CtlEffect("handleTaskViewEvent", "", ViewEvents[k], r, currentUser)
             /\ asked' = IF ViewEvents[k].type = "filterRequested"
                         THEN [kind |-> ViewEvents[k].data.filterType,
                               value |-> ViewEvents[k].data.filterValue, ok |-> r.ok]
                         ELSE asked
    /\ UNCHANGED <<now, currentUser, prev>>

\* TaskRepository.findOverdue()
TFindOverdue ==
    /\ Step
    /\ \E r \in {TaskFindOverdue(World(tasks, taskCache), now)} :
           /\ tasks' = r.w.rows
           /\ taskCache' = r.w.cache
           /\ last' = Last("findOverdue", "", <<>>, r)
    /\ UNCHANGED <<front, users, userCache, now, currentUser, prev>>

\* TaskRepository.getStatistics(userId); '' is a call without a user id
TGetStatistics ==
    /\ Step
    /\ \E userId \in {""} \cup UserIds :
       \E r \in {TaskGetStatistics(World(tasks, taskCache), userId, now)} :
           /\ tasks' = r.w.rows
           /\ taskCache' = r.w.cache
           /\ last' = Last("getStatistics", userId, <<>>, r)
    /\ UNCHANGED <<front, users, userCache, now, currentUser, prev>>

\* TaskService.getOverdueTasks(userId)
SGetOverdueTasks ==
    /\ Step
    /\ \E userId \in {""} \cup UserIds :
       \E r \in {FilterQuery(World(tasks, taskCache), userId, "overdue", Null, now)} :
           /\ tasks' = r.w.rows
           /\ taskCache' = r.w.cache
           /\ last' = Last("getOverdueTasks", userId, <<>>, r)
    /\ UNCHANGED <<front, users, userCache, now, currentUser, prev>>

\* TaskRepository.findAll(options)
TFindAllQuery ==
    /\ Step
    /\ \E o \in QueryInputs :
       \E r \in {TaskFindAllQuery(World(tasks, taskCache), o, now)} :
             /\ tasks' = r.w.rows
             /\ taskCache' = r.w.cache
             /\ last' = Last("findAll", "", o, r)
    /\ UNCHANGED <<front, users, userCache, now, currentUser, prev>>

\* UserRepository.findAll(options)
UFindAllQuery ==
    /\ Step
    /\ \E o \in UserQueryInputs :
       \E r \in {UserFindAllQuery(World(users, userCache), o)} :
             /\ users' = r.w.rows
             /\ userCache' = r.w.cache
             /\ last' = Last("user.findAll", "", o, r)
    /\ UNCHANGED <<front, tasks, taskCache, now, currentUser, prev>>

----------------------------------------------------------------------------
(* Handlers that nobody awaits. BaseView.notifyListeners calls
   handleTaskViewEvent and handleTaskServiceEvent calls refreshTasks without
   awaiting the promise, so a handler runs on only when the load or the save
   it waits for returns, and other handlers run in between. A handler stands
   at "load" (its repository call waits for storage.load), at "save" (its
   update or create waits for storage.save), at "stats" (its updateTaskStats
   waits for storage.load) or is "done". The loads a handler makes before its save are taken as one. *)

\* a handler or refresh that has just reached its first load; snap will hold
\* the collection it loads, read the task its getTaskById returns, rows and
\* cache what it hands to _saveTasks and to this._cache.set
Started(kind, e) ==
    [kind |-> kind, pc |-> "load", e |-> e, snap |-> <<>>, read |-> <<>>, rows |-> <<>>,
     cache |-> <<>>, cache0 |-> <<>>, ok |-> TRUE, err |-> "", log |-> <<>>]

Suspended == {"load", "save", "stats"}

\* the repository calls waiting at the persistence boundary
InFlight == {i \in 1..Len(flight) : flight[i].pc \in Suspended}

savedRows_KeepsStored(p, stored) == IF stored = p.snap THEN p.rows ELSE stored

\* what _saveTasks(tasks) writes: the array the call loaded, with its own
\* change, whatever the store holds by now
savedRows(p, stored) == p.rows

\* this._cache.set after the save: the entries the call set
savedCache(p, cache) ==
    [k \in AllTaskIds |-> IF p.cache[k] # p.cache0[k] THEN p.cache[k] ELSE cache[k]]

\* handleTaskServiceEvent on the service's task event: this.refreshTasks(),
\* not awaited
handleTaskServiceEvent(fl, p, sl) ==
    IF HeardTaskEvent(p, sl) THEN Append(fl, Started("refresh", Null)) ELSE fl

\* BaseView.notifyListeners(type, data): the controller's handleTaskViewEvent
\* is called and not awaited; it runs up to its first load, or to its end
\* when it makes none. The view sends events once a user is signed in.
VNotifyListeners ==
    /\ Step
    /\ currentUser # NoUser
    /\ \E k \in 1..Len(AsyncEvents) :
       \E r \in {handleTaskViewEvent(World(tasks, taskCache), World(users, userCache),
                                     currentUser, currentFilter, AsyncEvents[k], now)} :
             /\ flight' = Append(flight,
                                 IF r.wt.loads = 0
                                 THEN [Started("handler", AsyncEvents[k])
                                          EXCEPT !.pc = "done", !.ok = r.ok, !.err = r.err,
                                                 !.log = r.log]
                                 ELSE Started("handler", AsyncEvents[k]))
             /\ last' = CtlLast("view.notifyListeners", "", AsyncEvents[k],
                                CtlRes(World(<<>>, <<>>), World(<<>>, <<>>), TRUE, "", <<>>, <<>>))
    /\ UNCHANGED <<tasks, users, taskCache, userCache, now, currentUser, currentFilter,
                   displayed, svcListeners, ctlListeners, asked, prev>>

\* storage.load returns to a handler: it works on the collection as it is now
\* and either ends without a save or hands its rewritten array to _saveTasks
HLoaded ==
    \E i \in {j \in 1..Len(flight) : flight[j].kind = "handler" /\ flight[j].pc = "load"} :
    \E r \in {handleTaskViewEvent(World(tasks, taskCache), World(users, userCache),
                                  currentUser, currentFilter, flight[i].e, now)} :
       /\ flight' = [flight EXCEPT ![i] =
                        IF r.wt.saves > 0
                        THEN [@ EXCEPT !.pc = "save", !.snap = tasks, !.rows = r.wt.rows,
                                       !.read = IF flight[i].e.type = "addTimeRequested"
                                                THEN TaskFindById(World(tasks, taskCache),
                                                                  flight[i].e.data.taskId,
                                                                  now).ret
                                                ELSE <<>>,
                                       !.cache = r.wt.cache, !.cache0 = taskCache,
                                       !.ok = r.ok, !.err = r.err, !.log = r.log]
                        ELSE [@ EXCEPT !.pc = "done", !.snap = tasks, !.ok = r.ok,
                                       !.err = r.err, !.log = r.log]]
       /\ taskCache' = IF r.wt.saves > 0 THEN taskCache ELSE r.wt.cache
       /\ last' = CtlLast("loaded", "", flight[i].e,
                          CtlRes(World(<<>>, <<>>), World(<<>>, <<>>), r.ok, r.err, <<>>, <<>>))
       /\ UNCHANGED <<tasks, users, userCache, now, currentUser, currentFilter, displayed,
                      svcListeners, ctlListeners, asked, prev, steps>>

\* storage.save returns to a handler: the store holds the array it wrote, the
\* cache the entity; the service notifies its listeners, which starts the
\* controller's refresh, and the handler goes on to updateTaskStats
HSaved ==
    \E i \in 1..Len(flight) :
       /\ flight[i].kind = "handler"
       /\ flight[i].pc = "save"
       /\ tasks' = savedRows(flight[i], tasks)
       /\ taskCache' = savedCache(flight[i], taskCache)
       /\ flight' = handleTaskServiceEvent([flight EXCEPT ![i].pc = "stats"], flight[i],
                                           svcListeners)
       /\ last' = CtlLast("saved", "", flight[i].e,
                          CtlRes(World(<<>>, <<>>), World(<<>>, <<>>), TRUE, "", <<>>, <<>>))
       /\ UNCHANGED <<users, userCache, now, currentUser, currentFilter, displayed,
                      svcListeners, ctlListeners, asked, prev, steps>>

\* storage.load returns to the handler's updateTaskStats: the statistics are
\* displayed and the handler ends
HStats ==
    \E i \in 1..Len(flight) :
    \E x \in {updateTaskStats(World(tasks, taskCache), World(users, userCache), currentUser,
                              now)} :
       /\ flight[i].kind = "handler"
       /\ flight[i].pc = "stats"
       /\ flight' = [flight EXCEPT ![i].pc = "done"]
       /\ last' = [CtlLast("handleTaskViewEvent", "", flight[i].e, x)
                      EXCEPT !.ok = flight[i].ok, !.err = flight[i].err,
                             !.log = flight[i].log \o x.log]
       /\ UNCHANGED <<tasks, users, taskCache, userCache, now, currentUser, currentFilter,
                      displayed, svcListeners, ctlListeners, asked, prev, steps>>

\* storage.load returns to a refresh the controller started: the tasks of the
\* current filter and the statistics are displayed. The refreshes waiting are
\* all alike; the one started first resumes first.
HRefreshed ==
    \E i \in {j \in 1..Len(flight) :
                /\ flight[j].kind = "refresh" /\ flight[j].pc = "load"
                /\ \A k \in 1..(j - 1) : ~(flight[k].kind = "refresh" /\ flight[k].pc = "load")} :
    \E x \in {refreshTasks(World(tasks, taskCache), World(users, userCache), currentUser,
                           currentFilter, now)} :
       /\ flight' = [flight EXCEPT ![i].pc = "done"]
       /\ displayed' = IF x.shown # <<>> THEN x.shown[1] ELSE displayed
       /\ last' = CtlLast("refreshTasks", "", <<>>, x)
       /\ UNCHANGED <<tasks, users, taskCache, userCache, now, currentUser, currentFilter,
                      svcListeners, ctlListeners, asked, prev, steps>>

----------------------------------------------------------------------------
(* A second TaskRepository over the same storage manager. Its update and
   delete load and save the shared collection and set its own cache; the
   cache of the first instance is not told. It makes one change between two
   writes of the first instance. *)

\* the _cache of a repository that has cached nothing
EmptyCache == [i \in AllTaskIds |-> NoEntry]

\* update(id, updates) on the second instance
BUpdate ==
    /\ steps < MaxSteps
    /\ prev.kind \notin OtherKinds
    /\ \E id \in TaskIds, k \in 1..Len(OtherUpdates) :
       \E r \in {TaskUpdate(World(tasks, EmptyCache), id, OtherUpdates[k], now)} :
             /\ r.ok /\ r.ret # <<>>
             /\ tasks' = r.w.rows
             /\ last' = Last("other.update", id, OtherUpdates[k], r)
             /\ prev' = [kind |-> "other.update", id |-> id, entity |-> r.ret,
                         before |-> r.pre, upd |-> OtherUpdates[k], at |-> now]
    /\ UNCHANGED <<front, users, taskCache, userCache, now, currentUser, steps>>

\* delete(id) on the second instance
BDelete ==
    /\ steps < MaxSteps
    /\ prev.kind \notin OtherKinds
    /\ \E id \in TaskIds :
       \E r \in {TaskDelete(World(tasks, EmptyCache), id)} :
             /\ r.ret = <<TRUE>>
             /\ tasks' = r.w.rows
             /\ last' = Last("other.delete", id, <<>>, r)
             /\ prev' = [NoPrev EXCEPT !.kind = "other.delete", !.id = id, !.at = now]
    /\ UNCHANGED <<front, users, taskCache, userCache, now, currentUser, steps>>

\* the task repository
Next ==
    \/ Tick
    \/ TCreate
    \/ TFindById
    \/ TFindAll
    \/ TUpdate
    \/ TDelete

Spec == Init /\ [][Next]_vars

\* the user repository
NextUser ==
    \/ UTick
    \/ UCreate
    \/ UFindById
    \/ UUpdate
    \/ UDelete

SpecUser == InitUser /\ [][NextUser]_vars

\* both repositories over one store: creations and lookups by id
InitBoth ==
    /\ tasks \in InitTasks
    /\ users \in InitUsers
    /\ InitCommon
    /\ NoListeners

NextLookup ==
    \/ Tick
    \/ UTick
    \/ TCreate
    \/ TFindById
    \/ UCreate
    \/ UFindById

SpecLookup == InitBoth /\ [][NextLookup]_vars

\* the task repository under updates of the fields without a setter
InitFields ==
    /\ tasks \in FieldTasks
    /\ users = <<>>
    /\ InitCommon
    /\ NoListeners

NextFields ==
    \/ Tick
    \/ TCreate
    \/ TFindById
    \/ TUpdateField

SpecFields == InitFields /\ [][NextFields]_vars

\* the task repository under updates that a mutator rejects
NextAtomic ==
    \/ Tick
    \/ TFindById
    \/ TUpdateFields

SpecAtomic == InitFields /\ [][NextAtomic]_vars

\* the task service over the two repositories, with its listeners
InitSvc ==
    /\ tasks \in SvcTasks
    /\ users \in CtlUsers
    /\ svcListeners \in SvcListeners
    /\ ctlListeners = <<>>
    /\ InitCommon

NextSvc ==
    \/ SAddListener
    \/ SRemoveListener
    \/ SCreateTask
    \/ SUpdateTask
    \/ SDeleteTask

SpecSvc == InitSvc /\ [][NextSvc]_vars

\* the controller over the services and the two repositories
InitCtl ==
    /\ tasks \in CtlTasks
    /\ users \in CtlUsers
    /\ svcListeners = AppServiceListeners
    /\ ctlListeners = AppControllerListeners
    /\ InitCommon

NextCtl ==
    \/ Tick
    \/ CInitialize
    \/ CToggleTaskCompletion
    \/ CUpdateTask
    \/ CDeleteTask
    \/ CAssignTask
    \/ CAddTimeSpent
    \/ CSetDueDate
    \/ CAddTaskTag
    \/ CRemoveTaskTag

SpecCtl == InitCtl /\ [][NextCtl]_vars

\* the controller's filter and the view's list under creations, updates,
\* deletions, filter requests and refreshes
NextView ==
    \/ Tick
    \/ CInitialize
    \/ CCreateTask
    \/ CUpdateTask
    \/ CDeleteTask
    \/ CToggleTaskCompletion
    \/ CFilterTasks
    \/ CRefreshTasks

SpecView == InitCtl /\ [][NextView]_vars

\* the controller under the view's events and searches
NextEvents ==
    \/ Tick
    \/ CInitialize
    \/ CFilterTasks
    \/ CSearchTasks
    \/ CHandleTaskViewEvent

SpecEvents == InitCtl /\ [][NextEvents]_vars

\* overdue tasks under the controller's completion toggle and due dates
InitOverdue ==
    /\ tasks \in OverdueTasks
    /\ users \in CtlUsers
    /\ svcListeners = AppServiceListeners
    /\ ctlListeners = AppControllerListeners
    /\ InitCommon

NextOverdue ==
    \/ Tick
    \/ CInitialize
    \/ CToggleTaskCompletion
    \/ CSetDueDate
    \/ TFindOverdue
    \/ TGetStatistics
    \/ SGetOverdueTasks

SpecOverdue == InitOverdue /\ [][NextOverdue]_vars

\* the queries of both repositories over a stored collection
InitQuery ==
    /\ tasks \in QueryTasks
    /\ users \in InitUsers
    /\ InitCommon
    /\ NoListeners

NextQuery ==
    \/ Tick
    \/ TFindAllQuery
    \/ UFindAllQuery
    \/ TDelete
    \/ TGetStatistics

SpecQuery == InitQuery /\ [][NextQuery]_vars

\* the view's events handled while earlier handlers wait for the store
InitAsync ==
    /\ tasks \in AsyncTasks
    /\ users \in AsyncUsers
    /\ svcListeners = AppServiceListeners
    /\ ctlListeners = AppControllerListeners
    /\ InitCommon

NextAsync ==
    \/ CInitialize
    \/ VNotifyListeners
    \/ HLoaded
    \/ HSaved
    \/ HStats
    \/ HRefreshed

SpecAsync == InitAsync /\ [][NextAsync]_vars

\* two repository instances over one store
NextShared ==
    \/ Tick
    \/ TCreate
    \/ TFindById
    \/ BUpdate
    \/ BDelete

SpecShared == Init /\ [][NextShared]_vars

----------------------------------------------------------------------------
(* Properties of the task repository (Spec) *)

RowIndexes(rows, id) == {i \in 1..Len(rows) : rows[i].id = id}

Fresh(entry, expiry) == entry # NoEntry /\ now - entry.timestamp <= expiry

\* C1: every unexpired cache entry keyed by id holds an entity whose id is that
\* key and whose fields are those of the persisted row with that id, and no
\* entry exists for an id without a persisted row.
C1_CacheCoherent ==
    \A id \in AllTaskIds :
        Fresh(taskCache[id], TaskCacheExpiry) =>
            /\ taskCache[id].data.id = id
            /\ \E i \in RowIndexes(tasks, id) : tasks[i] = toJSON(taskCache[id].data)

\* C3: in every persisted row, every cached entity and every entity a call
\* returns, completed is true exactly when status is 'completed'.
CompletedIffStatus(e) == e.completed <=> (e.status = "completed")

C3_CompletedIffStatus ==
    /\ \A i \in 1..Len(tasks) : CompletedIffStatus(tasks[i])
    /\ \A id \in AllTaskIds : taskCache[id] # NoEntry => CompletedIffStatus(taskCache[id].data)

\* what a reader of the entity sees for a field of an updates object (a due
\* date is compared as an instant)
Observes(e, key, val) ==
    IF key = "dueDate" THEN e.dueDate = (IF val = Null THEN Null ELSE ParseDate(val))
    ELSE e[key] = val

\* C4: update(id, {field: v}), field a field of the task, followed by
\* findById(id) observes field = v and an updatedAt strictly greater than
\* before the update.
C4_UpdateThenFind ==
    (last.op = "findById" /\ prev.kind = "update" /\ prev.id = last.id /\ Len(prev.upd) = 1
        /\ prev.upd[1].key \in DOMAIN prev.before[1])
        => /\ last.ok
           /\ last.ret # <<>>
           /\ Observes(last.ret[1], prev.upd[1].key, prev.upd[1].val)
           /\ last.ret[1].updatedAt[2] > prev.before[1].updatedAt[2]

C6_DeleteThenFind ==
    (last.op = "findById" /\ prev.kind = "delete" /\ prev.id = last.id)
        => last.ret = <<>> /\ taskCache[last.id] = NoEntry

\* C7: a findById(id) issued right after a successful create or update of id
\* (the clock has not moved) returns the entity without a storage load.
C7_FindAfterWriteNoLoad ==
    (last.op = "findById" /\ prev.kind \in {"create", "update"} /\ prev.id = last.id
        /\ prev.at = now)
        => last.ok /\ last.loads = 0 /\ last.ret = prev.entity

C7_Witness ==
    /\ last.op = "findById" /\ prev.kind = "update" /\ prev.id = last.id
    /\ prev.at = now /\ last.loads = 0 /\ last.ret = prev.entity

\* C9: create with an id that the persisted collection already holds fails with
\* the duplicate error, saves nothing, and leaves collection and cache as they
\* were.
C9_DuplicateCreateNoEffect ==
    [][(last'.op = "create" /\ RowIndexes(tasks, last'.id) # {})
        => /\ ~last'.ok
           /\ last'.err = "Task already exists"
           /\ last'.saves = 0
           /\ tasks' = tasks
           /\ taskCache' = taskCache]_vars

C9_Witness ==
    /\ last.op = "create" /\ ~last.ok /\ last.err = "Task already exists"
    /\ Len(tasks) = 2

----------------------------------------------------------------------------
(* Properties of the cache lifetime (SpecLookup) *)

IsLookup == last.op \in {"findById", "user.findById"} /\ last.age >= 0

LookupExpiry == IF last.op = "findById" THEN TaskCacheExpiry ELSE UserCacheExpiry

LookupEntry == IF last.op = "findById" THEN taskCache[last.id] ELSE userCache[last.id]

Reloaded ==
    /\ last.loads = 1
    /\ LookupEntry = NoEntry \/ LookupEntry.timestamp = now
    /\ last.ret = <<>> <=> LookupEntry = NoEntry

Served == last.loads = 0 /\ last.ret # <<>> /\ LookupEntry.timestamp = now - last.age

\* C8 as stated: a findById that finds an entry written a TTL or longer ago (5
\* minutes for tasks, 10 for users) evicts it and reloads from persistence; one
\* that finds a younger entry is served without a load.
C8_ReloadOnceTTLElapsed ==
    IsLookup => IF last.age >= LookupExpiry THEN Reloaded ELSE Served

\* C8 amended: a findById that finds an entry written more than a TTL ago evicts
\* it and reloads from persistence; one that finds an entry whose age is at most
\* the TTL is served without a load.
C8_ReloadWhenOlderThanTTL ==
    IsLookup => IF last.age > LookupExpiry THEN Reloaded ELSE Served

C8_Witness ==
    /\ last.op = "user.findById" /\ last.age = UserCacheExpiry + 1
    /\ Reloaded /\ last.ret # <<>>

----------------------------------------------------------------------------
(* Properties of the user repository (SpecUser) *)

UniqueIds(rows) == \A i, j \in 1..Len(rows) : rows[i].id = rows[j].id => i = j

\* C10: no two persisted rows of the same collection share an id, for tasks and
\* for users alike; a create with an id already present is rejected.
C10_UniqueIds == UniqueIds(tasks) /\ UniqueIds(users)

----------------------------------------------------------------------------
(* Properties of the controller (SpecCtl) *)

CtlMutators ==
    {"updateTask", "deleteTask", "assignTask", "addTimeSpent", "toggleTaskCompletion",
     "setDueDate", "addTaskTag", "removeTaskTag"}

PermissionErrors ==
    {"Permission denied: Cannot modify this task", "Permission denied: Cannot delete this task"}

\* the user owns the task, is its assignee, or is an administrator
Related(task, cu) == task.userId = cu.id \/ task.assignedTo = cu.id \/ cu.isAdmin

\* the task as a lookup by id returns it now (<<>> when there is none)
SeenTask(id) == TaskFindById(World(tasks, taskCache), id, now).ret

\* there is a current user, and the task is none of theirs
Denied(id) ==
    /\ currentUser # NoUser
    /\ SeenTask(id) # <<>>
    /\ ~Related(SeenTask(id)[1], currentUser)

\* C2 as stated: when the current user is neither owner nor assignee of the
\* task nor an administrator, each of the eight controller mutations fails with
\* a permission error, saves nothing and leaves the persisted tasks unchanged.
C2_DeniedFailsWithPermissionError ==
    [][(last'.op \in CtlMutators /\ Denied(last'.id))
        => /\ ~last'.ok
           /\ last'.err \in PermissionErrors
           /\ last'.saves = 0
           /\ tasks' = tasks]_vars

MissingArgument ==
    last'.op \in {"addTimeSpent", "addTaskTag", "removeTaskTag"} /\ last'.upd[1] = Null

UnknownAssignee ==
    /\ last'.op = "assignTask"
    /\ UserFindById(World(users, userCache), last'.upd[1], now).ret = <<>>

TagAlreadyThere ==
    /\ last'.op = "addTaskTag"
    /\ Includes(SeenTask(last'.id)[1].tags, toLowerCase(last'.upd[1]))

\* C2 amended: under the same condition each of the eight mutations saves
\* nothing and leaves the persisted tasks unchanged; it fails with the
\* permission error, except that a call lacking a required argument fails with
\* the missing-parameters error, assignTask to an unknown user fails with
\* 'Assignee not found', and addTaskTag of a tag the task already has resolves
\* with the task.
C2_DeniedNeverSaves ==
    [][(last'.op \in CtlMutators /\ Denied(last'.id))
        => /\ last'.saves = 0
           /\ tasks' = tasks
           /\ IF MissingArgument
              THEN ~last'.ok /\ last'.err = "Missing required parameters"
              ELSE IF UnknownAssignee
              THEN ~last'.ok /\ last'.err = "Assignee not found"
              ELSE IF TagAlreadyThere
              THEN last'.ok /\ last'.ret = SeenTask(last'.id)
              ELSE ~last'.ok /\ last'.err \in PermissionErrors]_vars

C2_Witness ==
    /\ last.op = "updateTask" /\ ~last.ok
    /\ last.err = "Permission denied: Cannot modify this task"
    /\ last.saves = 0
    /\ currentUser # NoUser
    /\ last.pre # <<>> /\ ~Related(last.pre[1], currentUser)

----------------------------------------------------------------------------
(* Properties of the task's fields (SpecFields, SpecCtl) *)

SameIdentity(a, b) == a.id = b.id /\ a.userId = b.userId /\ a.createdAt = b.createdAt

\* C11: whatever keys update(id, updates) is given, every persisted row and the
\* returned entity keep the id, userId and createdAt the task had before.
C11_IdentityImmutable ==
    [][last'.op = "update"
        => /\ Len(tasks') = Len(tasks)
           /\ \A i \in 1..Len(tasks) : SameIdentity(tasks'[i], tasks[i])
           /\ last'.ret # <<>> => SameIdentity(last'.ret[1], last'.pre[1])]_vars

\* C12: in every persisted task completedAt is non-null exactly when completed
\* is true.
C12_CompletedAtIffCompleted ==
    \A i \in 1..Len(tasks) : (tasks[i].completedAt # Null) <=> tasks[i].completed

NormalizedSet(tags) ==
    /\ \A i \in 1..Len(tags) : tags[i] = trim(toLowerCase(tags[i]))
    /\ \A i, j \in 1..Len(tags) : tags[i] = tags[j] => i = j

\* C13: in every persisted row and every cached entity the tags are lower-case
\* normalized strings without duplicates.
C13_TagsNormalizedSet ==
    /\ \A i \in 1..Len(tasks) : NormalizedSet(tasks[i].tags)
    /\ \A id \in AllTaskIds : taskCache[id] # NoEntry => NormalizedSet(taskCache[id].data.tags)

\* C14: in every persisted row and every cached entity the dependencies do not
\* contain the task's own id.
C14_NoSelfDependency ==
    /\ \A i \in 1..Len(tasks) : ~Includes(tasks[i].dependencies, tasks[i].id)
    /\ \A id \in AllTaskIds :
          taskCache[id] # NoEntry
            => ~Includes(taskCache[id].data.dependencies, taskCache[id].data.id)

----------------------------------------------------------------------------
(* Properties of the user collection (SpecUser) *)

\* C15: no two persisted users have the same username or the same email,
\* compared case-insensitively.
C15_UniqueNames ==
    \A i, j \in 1..Len(users) :
        i # j => /\ toLowerCase(users[i].username) # toLowerCase(users[j].username)
                 /\ toLowerCase(users[i].email) # toLowerCase(users[j].email)

----------------------------------------------------------------------------
(* Properties of the task service and of the notifications (SpecSvc) *)

ServiceOps == {"service.createTask", "service.updateTask", "service.deleteTask"}

EventOf(op) ==
    CASE op = "service.createTask" -> "taskCreated"
      [] op = "service.updateTask" -> "taskUpdated"
      [] op = "service.deleteTask" -> "taskDeleted"

OperationOf(op) ==
    CASE op = "service.createTask" -> "createTask"
      [] op = "service.updateTask" -> "updateTask"
      [] op = "service.deleteTask" -> "deleteTask"

\* findById(id) of the user repository can find a user: a row or a cache entry
HasUser(id) == FindIndex(users, id) # 0 \/ userCache[id] # NoEntry

UserNotFound == Event("service", "error", "createTask", "User not found", "", -1)

\* C16: TaskService.createTask for a userId no user has fails with 'User not
\* found', hands one error event of operation 'createTask' to every service
\* listener, emits no taskCreated and saves nothing in the task collection.
C16_UnknownUserCreateFails ==
    [][(last'.op = "service.createTask" /\ ~HasUser(last'.upd.userId))
        => /\ ~last'.ok
           /\ last'.err = "User not found"
           /\ last'.log = <<UserNotFound>>
           /\ Len(last'.calls) = Len(svcListeners)
           /\ \A i \in 1..Len(svcListeners) :
                 last'.calls[i] = [listener |-> svcListeners[i], event |-> UserNotFound]
           /\ last'.saves = 0
           /\ tasks' = tasks]_vars

C16_Witness ==
    /\ last.op = "service.createTask"
    /\ last.err = "User not found"
    /\ ~HasUser(last.upd.userId)
    /\ Len(last.calls) = 2

\* C17: a TaskService mutation that was persisted emits exactly one event, of
\* its own kind, naming the persisted task; one that found nothing (update
\* null, delete false) emits nothing; one that failed emits exactly one error
\* event with its operation and message, and has persisted nothing.
C17_OneEventPerMutation ==
    last.op \in ServiceOps
      => /\ (last.ok /\ last.saves > 0)
              => /\ Len(last.log) = 1
                 /\ last.log[1].src = "service"
                 /\ last.log[1].type = EventOf(last.op)
                 /\ last.op = "service.deleteTask" => last.log[1].id = last.id
                 /\ last.op # "service.deleteTask" => FindIndex(tasks, last.log[1].id) # 0
         /\ (last.ok /\ last.saves = 0)
              => /\ last.log = <<>>
                 /\ \/ (last.op = "service.updateTask" /\ last.ret = <<>>)
                    \/ (last.op = "service.deleteTask" /\ last.ret = <<FALSE>>)
         /\ ~last.ok
              => /\ last.log = <<Event("service", "error", OperationOf(last.op),
                                       last.err, "", -1)>>
                 /\ last.saves = 0

C17_Witness ==
    /\ last.op = "service.updateTask"
    /\ last.ok
    /\ last.saves = 1
    /\ Len(last.calls) = 2
    /\ last.calls[2].event.type = "taskUpdated"

\* the listeners an event goes to
Audience(event) == IF event.src = "service" THEN svcListeners ELSE ctlListeners

\* number of listener calls made for the events before the j-th
RECURSIVE CallsBefore(_, _)
CallsBefore(log, j) ==
    IF j <= 1 THEN 0 ELSE CallsBefore(log, j - 1) + Len(Audience(log[j - 1]))

\* C18: for every notification every registered listener is called exactly
\* once, in registration order, the listeners after one that throws included,
\* and no listener's exception leaves notifyListeners.
C18_EveryListenerOnceInOrder ==
    /\ ~last.thrown
    /\ \A i, j \in 1..Len(svcListeners) : svcListeners[i] = svcListeners[j] => i = j
    /\ Len(last.calls) = CallsBefore(last.log, Len(last.log) + 1)
    /\ \A j \in 1..Len(last.log) :
          \A i \in 1..Len(Audience(last.log[j])) :
             last.calls[CallsBefore(last.log, j) + i]
               = [listener |-> Audience(last.log[j])[i], event |-> last.log[j]]

C18_Witness ==
    /\ last.log # <<>>
    /\ Len(svcListeners) = 3
    /\ Throws(svcListeners[1])
    /\ last.calls[3].listener = svcListeners[3]

----------------------------------------------------------------------------
(* Properties of the controller's events and of its filter (SpecView) *)

ControllerOps ==
    {"initialize", "createTask", "updateTask", "deleteTask", "toggleTaskCompletion",
     "assignTask", "addTimeSpent", "setDueDate", "addTaskTag", "removeTaskTag",
     "filterTasks", "refreshTasks"}

ErrorEvent(operation, message) == Event("controller", "error", operation, message, "", now)

\* every listener of the controller was called with the event
HeardByAll(event) ==
    \A i \in 1..Len(ctlListeners) :
       \E c \in 1..Len(last.calls) :
          last.calls[c] = [listener |-> ctlListeners[i], event |-> event]

\* C19: a controller operation that fails has emitted, last of all, an error
\* event with its own name, the message of the error it rejects with and the
\* time of the call, to every listener of the controller; and no operation
\* during which an error event was emitted resolves normally. The same holds
\* of the refreshTasks() started on a service event.
C19_FailureEmitsErrorAndRejects ==
    last.op \in ControllerOps
      => /\ ~last.ok
              => /\ last.log # <<>>
                 /\ last.log[Len(last.log)] = ErrorEvent(last.op, last.err)
                 /\ HeardByAll(ErrorEvent(last.op, last.err))
         /\ (\E i \in 1..Len(last.log) : last.log[i].type = "error") => ~last.ok
         /\ (last.refresh.ran /\ ~last.refresh.ok)
              => /\ last.refresh.log # <<>>
                 /\ last.refresh.log[Len(last.refresh.log)]
                      = ErrorEvent("refreshTasks", last.refresh.err)
                 /\ HeardByAll(ErrorEvent("refreshTasks", last.refresh.err))
         /\ (\E i \in 1..Len(last.refresh.log) : last.refresh.log[i].type = "error")
              => ~last.refresh.ok

C19_Witness ==
    /\ last.op = "toggleTaskCompletion"
    /\ ~last.ok
    /\ Len(last.log) = 2
    /\ last.log[1] = ErrorEvent("updateTask", last.err)
    /\ Len(last.calls) = 2
    /\ last.saves = 0

\* C20: once a caller's filterTasks(kind, value) has succeeded, every
\* refreshTasks that runs before the next filter request, the one started by
\* a service event included, displays what filterTasks(kind, value) returns
\* on the collection as it is then.
C20_RefreshReappliesFilter ==
    [][(asked.ok /\ asked' = asked /\ (last'.op = "refreshTasks" \/ last'.refresh.ran))
        => \E x \in {filterTasks(World(tasks', taskCache'), World(users', userCache'),
                                 currentUser', asked.kind, asked.value, now')} :
              x.ok => displayed' = x.ret]_vars

----------------------------------------------------------------------------
(* Properties of searches and of the view's events (SpecEvents) *)

Blank(query) == query = Null \/ trim(query) = <<>>

C22_UnknownViewEventIgnored ==
    [][(last'.op = "handleTaskViewEvent" /\ last'.upd.type \notin ViewEventTypes)
        => /\ last'.ok
           /\ last'.log = <<>>
           /\ last'.calls = <<>>
           /\ ~last'.refresh.ran
           /\ last'.loads = 0 /\ last'.saves = 0
           /\ UNCHANGED <<tasks, users, taskCache, userCache, currentUser, currentFilter,
                          displayed>>]_vars

C22_Witness ==
    /\ last.op = "handleTaskViewEvent"
    /\ last.upd.type = "sortRequested"
    /\ last.ok
    /\ currentUser # NoUser
    /\ currentFilter = "assigned"

----------------------------------------------------------------------------
(* Properties of the statistics the controller displays (SpecView) *)

MutationOps ==
    {"createTask", "updateTask", "deleteTask", "toggleTaskCompletion", "assignTask",
     "addTimeSpent", "setDueDate", "addTaskTag", "removeTaskTag"}

\* the indexes of the persisted rows of a user
RowsOf(userId) == {i \in 1..Len(tasks) : tasks[i].userId = userId}

RowOverdue(row) == ~row.completed /\ row.dueDate # Null /\ row.dueDate[2] < now

\* C23: when a controller mutation that saved the collection resolves, the
\* statistics it last handed to displayStats are those of the current user's
\* rows as they are after the mutation: total, completed, pending and overdue
\* counts, the counts of priorities high, medium and low, and the count of
\* every category.
C23_StatsAfterMutation ==
    (last.op \in MutationOps /\ last.ok /\ last.saves > 0)
      => /\ last.stats # <<>>
         /\ \E own \in {RowsOf(currentUser.id)} :
            \E st \in {last.stats[1]} :
               /\ st.total = Cardinality(own)
               /\ st.completed = Cardinality({i \in own : tasks[i].completed})
               /\ st.pending = Cardinality({i \in own : ~tasks[i].completed})
               /\ st.overdue = Cardinality({i \in own : RowOverdue(tasks[i])})
               /\ \A p \in {"high", "medium", "low"} :
                     st.byPriority[p] = Cardinality({i \in own : tasks[i].priority = p})
               /\ DOMAIN st.byCategory = {tasks[i].category : i \in own}
               /\ \A c \in DOMAIN st.byCategory :
                     st.byCategory[c] = Cardinality({i \in own : tasks[i].category = c})

C23_Witness ==
    /\ last.op = "deleteTask"
    /\ last.ok
    /\ last.saves > 0
    /\ last.stats # <<>>
    /\ last.stats[1].total = 0
    /\ Len(tasks) = 1

----------------------------------------------------------------------------
(* Properties of findOverdue (SpecOverdue) *)

OverdueRows == SelectSeq(tasks, RowOverdue)

\* C24: findOverdue returns exactly the persisted tasks that are not completed
\* and whose due date is before now, in the order of the collection; so a
\* task with a past due date is returned while it is pending and no longer
\* once toggleTaskCompletion has completed it.
C24_FindOverdueExact ==
    (last.op = "findOverdue" /\ last.ok)
      => /\ Len(last.ret) = Len(OverdueRows)
         /\ \A k \in 1..Len(last.ret) : toJSON(last.ret[k]) = OverdueRows[k]

C24_Witness ==
    /\ last.op = "findOverdue"
    /\ last.ok
    /\ last.ret = <<>>
    /\ \E i \in 1..Len(tasks) :
          /\ tasks[i].id = "t1"
          /\ tasks[i].completed
          /\ tasks[i].dueDate = Iso(0)
          /\ tasks[i].updatedAt = Iso(now)

\* the persisted rows a call for userId counts: the user's rows, every row
\* when no user id is given
CountedRows(userId) == {i \in 1..Len(tasks) : userId = "" \/ tasks[i].userId = userId}

\* C31: for every user id, the overdue count of getStatistics(userId) equals
\* the number of tasks getOverdueTasks(userId) returns at the same instant,
\* and both equal the number of that user's persisted rows that are not
\* completed and whose due date is before now; neither call fails when the
\* other succeeds.
C31_OverdueCountsAgree ==
    \A userId \in {""} \cup UserIds :
       \E s \in {TaskGetStatistics(World(tasks, taskCache), userId, now)} :
       \E o \in {FilterQuery(World(tasks, taskCache), userId, "overdue", Null, now)} :
          /\ s.ok = o.ok
          /\ s.ok => /\ s.ret[1].overdue = Len(o.ret)
                      /\ Len(o.ret) = Cardinality({i \in CountedRows(userId) : RowOverdue(tasks[i])})
          /\ (last.op = "getStatistics" /\ last.id = userId) => last.ret = s.ret
          /\ (last.op = "getOverdueTasks" /\ last.id = userId) => last.ret = o.ret

\* getOverdueTasks('u2') returned nothing at the instant the task of 'u2' is
\* due, although the task is pending
C31_Witness ==
    /\ last.op = "getOverdueTasks"
    /\ last.id = "u2"
    /\ last.ok
    /\ last.ret = <<>>
    /\ \E i \in 1..Len(tasks) :
          tasks[i].userId = "u2" /\ ~tasks[i].completed /\ tasks[i].dueDate = Iso(now)

----------------------------------------------------------------------------
(* Properties of the queries (SpecQuery) *)

\* a persisted row satisfies every filter that options o supply
RowSatisfies(row, o) ==
    /\ o.userId # "" => row.userId = o.userId
    /\ o.completed # <<>> => row.completed = o.completed[1]
    /\ o.priority # "" => row.priority = o.priority
    /\ o.category # Null => row.category = o.category
    /\ o.assignedTo # "" => row.assignedTo = o.assignedTo

Unarranged(o) == o.sortBy = "" /\ o.limit = <<>> /\ o.offset = <<>>

\* C25: findAll returns exactly the persisted rows, hydrated, that satisfy all
\* the supplied filters on userId, completed, priority, category and
\* assignedTo together, in the order of the collection; a filter that is not
\* supplied restricts nothing; sorted or sliced, it returns only such rows.
C25_FiltersAndCombined ==
    (last.op = "findAll" /\ last.ok)
      => /\ \A k \in 1..Len(last.ret) : RowSatisfies(toJSON(last.ret[k]), last.upd)
         /\ Unarranged(last.upd)
              => \E want \in {SelectSeq(tasks, LAMBDA row : RowSatisfies(row, last.upd))} :
                    /\ Len(last.ret) = Len(want)
                    /\ \A k \in 1..Len(want) : toJSON(last.ret[k]) = want[k]

C25_Witness ==
    /\ last.op = "findAll"
    /\ last.ok
    /\ last.upd = [NoQuery EXCEPT !.userId = "u2", !.priority = "urgent", !.assignedTo = "u1"]
    /\ Len(tasks) = 3
    /\ Len(last.ret) = 1
    /\ last.ret[1].id = "t2"

\* the filtered and sorted sequence a query slices
Unsliced(op, o) ==
    IF op = "findAll"
    THEN TaskFindAllQuery(World(tasks, taskCache), [o EXCEPT !.limit = <<>>, !.offset = <<>>], now).ret
    ELSE UserFindAllQuery(World(users, userCache), [o EXCEPT !.limit = <<>>, !.offset = <<>>]).ret

\* C26: findAll with offset o (0 when none is given) and limit l returns
\* exactly the elements at positions o .. o+l-1 of the filtered and sorted
\* sequence, so never more than l elements, for l = 0 as well; for tasks and
\* for users.
C26_PaginationIsSlice ==
    (last.op \in {"findAll", "user.findAll"} /\ last.ok /\ last.upd.limit # <<>>)
      => \E whole \in {Unsliced(last.op, last.upd)} :
         \E o \in {IF last.upd.offset = <<>> THEN 0 ELSE last.upd.offset[1]} :
            /\ Len(last.ret) <= last.upd.limit[1]
            /\ \A k \in 1..Len(last.ret) : o + k <= Len(whole) /\ last.ret[k] = whole[o + k]
            /\ \A k \in 1..last.upd.limit[1] : o + k <= Len(whole) => k <= Len(last.ret)

\* the string the sort compares for an element
SortString(e, sortBy) == toLowerCase(IF sortBy = "priority" THEN Chars(e.priority) ELSE e.title)

PrioritiesOf(list) == [k \in 1..Len(list) |-> list[k].priority]

\* C27: sorted by a string field, findAll returns a permutation of the
\* filtered rows in which no element is followed by one whose lower-cased
\* value is smaller ('asc') or greater ('desc'); sorted by priority 'desc',
\* rows of priorities low, urgent, medium come back as urgent, medium, low.
C27_SortedByField ==
    (last.op = "findAll" /\ last.ok /\ last.upd.sortBy \in {"priority", "title"}
        /\ last.upd.limit = <<>> /\ last.upd.offset = <<>>)
      => \E rows \in {SelectSeq(tasks, LAMBDA row : RowSatisfies(row, last.upd))} :
            /\ Len(last.ret) = Len(rows)
            /\ \A i \in 1..Len(rows) : \E k \in 1..Len(last.ret) : toJSON(last.ret[k]) = rows[i]
            /\ \A k \in 1..(Len(last.ret) - 1) :
                  IF last.upd.sortOrder = "desc"
                  THEN ~StringLess(SortString(last.ret[k], last.upd.sortBy),
                                   SortString(last.ret[k + 1], last.upd.sortBy))
                  ELSE ~StringLess(SortString(last.ret[k + 1], last.upd.sortBy),
                                   SortString(last.ret[k], last.upd.sortBy))
            /\ (PrioritiesOf(rows) = <<"low", "urgent", "medium">>
                  /\ last.upd.sortBy = "priority" /\ last.upd.sortOrder = "desc")
                 => PrioritiesOf(last.ret) = <<"urgent", "medium", "low">>

C27_Witness ==
    /\ last.op = "findAll"
    /\ last.ok
    /\ last.upd = [NoQuery EXCEPT !.sortBy = "priority", !.sortOrder = "desc"]
    /\ PrioritiesOf(tasks) = <<"low", "urgent", "medium">>
    /\ PrioritiesOf(last.ret) = <<"urgent", "medium", "low">>

----------------------------------------------------------------------------
(* Properties of handlers that are not awaited (SpecAsync) *)

\* C28: at most one repository call waits at the persistence boundary at any
\* time: no handler, service method or listener starts a repository call
\* while another call's load or save has not returned.
C28_OneCallInFlight == Cardinality(InFlight) <= 1

\* the hours a stored row holds, 0 for none
HoursOf(rows, id) ==
    IF \E k \in 1..Len(rows) : rows[k].id = id /\ rows[k].actualHours # Null
    THEN (CHOOSE h \in {rows[k].actualHours[1] : k \in {n \in 1..Len(rows) : rows[n].id = id /\ rows[n].actualHours # Null}} : TRUE)
    ELSE 0

NoErrorIn(log) == \A k \in 1..Len(log) : log[k].type # "error"

Saving(i) == i \in 1..Len(flight) /\ flight[i].pc = "save" /\ flight'[i].pc = "stats"

\* C29: a mutation's save replaces the whole collection by the one the
\* mutation loaded with its own change applied, whatever was saved since the
\* load: after an addTimeSpent(h) saves, the task holds the hours that call
\* read plus h, and the caller gets no error; a change saved between a call's
\* load and its save is lost.
C29_LastWriterWins ==
    [][\A i \in 1..Len(flight) :
          Saving(i)
            => /\ tasks' = flight[i].rows
               /\ Len(flight[i].rows) >= Len(flight[i].snap)
               /\ \A k \in 1..Len(flight[i].snap) :
                     \/ flight[i].rows[k] = flight[i].snap[k]
                     \/ /\ flight[i].e.type = "addTimeRequested"
                        /\ flight[i].snap[k].id = flight[i].e.data.taskId
               /\ flight[i].ok
               /\ NoErrorIn(flight[i].log)
               /\ flight[i].e.type = "addTimeRequested"
                    => HoursOf(tasks', flight[i].e.data.taskId)
                         = HoursOf(<<toJSON(flight[i].read[1])>>, flight[i].e.data.taskId)
                             + flight[i].e.data.hours[1]]_vars

Saved(i) == flight[i].kind = "handler" /\ flight[i].pc \in {"stats", "done"} /\ flight[i].rows # <<>>

C29_Witness ==
    \E i, j \in 1..Len(flight) :
       /\ flight[i].e = AsyncEvents[1]
       /\ flight[j].e = AsyncEvents[2]
       /\ Saved(i) /\ Saved(j)
       /\ flight[i].snap = flight[j].snap
       /\ flight[i].ok /\ flight[j].ok
       /\ NoErrorIn(flight[i].log) /\ NoErrorIn(flight[j].log)
       /\ HoursOf(flight[i].snap, "t1") = 0
       /\ HoursOf(tasks, "t1") = 2

----------------------------------------------------------------------------
(* Properties of a cache beside a second repository instance (SpecShared) *)

\* the last findById returned the persisted state of its id: the row as a load
\* hydrates it, or null when there is no row
PersistedReturned ==
    /\ last.ret = TaskFindById(World(tasks, EmptyCache), last.id, now).ret
    /\ (last.ret = <<>>) <=> (FindIndex(tasks, last.id) = 0)

\* C30 as stated: whatever another instance has updated or deleted, a
\* findById(id) that finds no entry, or one written a TTL or longer ago,
\* returns the persisted state; the cached value is returned only while the
\* entry is younger than the TTL.
C30_StaleOnlyWhileYoungerThanTTL ==
    (last.op = "findById" /\ last.ok)
      => ((last.age = -1 \/ last.age >= TaskCacheExpiry) => PersistedReturned)

\* C30 amended: a findById(id) that finds no entry, or one written more than
\* a TTL ago, returns the persisted state; one that finds an entry at most a
\* TTL old returns the cached entity, changed in the store or not, and leaves
\* the entry's timestamp as it was.
C30_StaleOnlyUpToTTL ==
    (last.op = "findById" /\ last.ok)
      => IF last.age = -1 \/ last.age > TaskCacheExpiry
         THEN PersistedReturned
         ELSE /\ taskCache[last.id] # NoEntry
              /\ last.ret = <<taskCache[last.id].data>>
              /\ taskCache[last.id].timestamp = now - last.age

C30_Witness ==
    /\ last.op = "findById"
    /\ last.age = TaskCacheExpiry + 1
    /\ prev.kind = "other.update"
    /\ prev.id = last.id
    /\ prev.at < now - last.age + TaskCacheExpiry
    /\ PersistedReturned
    /\ last.ret[1].title = <<"B">>

----------------------------------------------------------------------------
(* Lookups and deletions of ids that do not exist (SpecCtl) *)

\* no persisted row and no cache entry carries the id
Missing(id) == FindIndex(tasks, id) = 0 /\ taskCache[id] = NoEntry

\* C32: the controller's updateTask and deleteTask addressed to an id that
\* does not exist do not raise: the call resolves, emits no error event and
\* leaves the persisted collection and the cache as they were.
C32_MissNeverRaises ==
    [][(last'.op \in {"updateTask", "deleteTask"} /\ Missing(last'.id))
         => /\ last'.ok
            /\ NoErrorIn(last'.log)
            /\ tasks' = tasks
            /\ taskCache' = taskCache]_vars

----------------------------------------------------------------------------
(* Readability of the persisted collection (SpecFields) *)

\* C33: after every successful create or update every persisted row can be
\* hydrated: a findAll over the collection succeeds.
C33_CollectionReadable ==
    (last.op \in {"create", "update"} /\ last.ok)
      => TaskFindAll(World(tasks, taskCache), now).ok

----------------------------------------------------------------------------
(* Rejected updates (SpecAtomic) *)

\* the mutator of the field rejects the value
KeyRejected(u) ==
    \/ u.key = "title" /\ trim(u.val) = <<>>
    \/ u.key = "priority" /\ u.val \notin validPriorities
    \/ u.key = "status" /\ u.val \notin validStatuses
    \/ u.key = "dueDate" /\ u.val # Null /\ ParseDate(u.val) = InvalidDate
    \/ u.key \in {"estimatedHours", "actualHours"} /\ u.val # Null /\ u.val[1] < 0

\* C34: an update of an existing task in which a mutator rejects some
\* supplied field raises, makes no save and leaves the persisted rows and the
\* cache as they were, whatever fields of the same updates object were
\* applied before the rejected one.
C34_UpdateAllOrNothing ==
    [][(/\ last'.op = "update"
        /\ FindIndex(tasks, last'.id) # 0
        /\ \E k \in 1..Len(last'.upd) : KeyRejected(last'.upd[k]))
         => /\ ~last'.ok
            /\ last'.saves = 0
            /\ tasks' = tasks
            /\ taskCache' = taskCache]_vars

\* update('t1', {title: 'B', actualHours: -1}) raised after the title had been
\* applied to the copy: the row and the cached task still carry title 'A'
C34_Witness ==
    /\ last.op = "update"
    /\ last.id = "t1"
    /\ last.upd = RejectingUpdateInputs[4]
    /\ ~last.ok
    /\ last.saves = 0
    /\ taskCache["t1"] # NoEntry
    /\ taskCache["t1"].data.title = <<"A">>
    /\ \E i \in 1..Len(tasks) : tasks[i].id = "t1" /\ tasks[i].title = <<"A">>

----------------------------------------------------------------------------
(* The filter the controller holds (SpecView) *)

\* C35: the controller's currentFilter is always one of the filter kinds
\* filterTasks recognizes; a filterTasks call with another kind leaves it as
\* it was.
C35_FilterRecognized == currentFilter \in filterTypes

----------------------------------------------------------------------------
(* The user the controller is initialized for (SpecCtl) *)

\* C36: an initialize (or setCurrentUser) for a user id that does not exist
\* fails and leaves currentUser as it was: a controller initialized for a
\* valid user stays initialized for that user.
C36_FailedInitializeKeepsUser ==
    [][(last'.op = "initialize" /\ FindIndex(users, last'.id) = 0)
         => /\ ~last'.ok
            /\ currentUser' = currentUser]_vars

----------------------------------------------------------------------------
(* Error events of a failed view event (SpecEvents) *)

\* the 'error' events the controller notified, in order
ControllerErrors(log) ==
    SelectSeq(log, LAMBDA ev : ev.src = "controller" /\ ev.type = "error")

\* C37: a view event whose handling fails yields exactly one controller
\* 'error' event, however many controller methods the failure passes through.
C37_OneErrorPerFailure ==
    (last.op = "handleTaskViewEvent" /\ ~last.ok) => Len(ControllerErrors(last.log)) = 1

----------------------------------------------------------------------------
(* The counts of getStatistics (SpecQuery) *)

\* the sum of the counts f holds for the keys in S
RECURSIVE SumOver(_, _)
SumOver(f, S) ==
    IF S = {} THEN 0
    ELSE LET k == CHOOSE x \in S : TRUE IN f[k] + SumOver(f, S \ {k})

\* C38: the statistics partition the counted tasks: completed + pending =
\* total, the byCategory counts sum to total, and the byPriority counts sum
\* to total.
C38_StatsPartition ==
    (last.op = "getStatistics" /\ last.ok)
      => \E st \in {last.ret[1]} :
            /\ st.completed + st.pending = st.total
            /\ SumOver(st.byCategory, DOMAIN st.byCategory) = st.total
            /\ SumOver(st.byPriority, DOMAIN st.byPriority) = st.total

----------------------------------------------------------------------------
(* The status a status update leaves (Spec) *)

\* C39: an update(id, {status: s}) that succeeds on an existing task leaves
\* the task with status s, and completed exactly when s is 'completed',
\* whatever the status and completion of the task were before.
C39_SetStatusSticks ==
    [][(/\ last'.op = "update"
        /\ last'.ok
        /\ last'.ret # <<>>
        /\ Len(last'.upd) = 1
        /\ last'.upd[1].key = "status")
         => /\ last'.ret[1].status = last'.upd[1].val
            /\ last'.ret[1].completed = (last'.upd[1].val = "completed")]_vars

====
